---- MODULE Spec2Model ----
(***************************************************************************)
(* Drone detector backend: the simulation engine (DroneSimulator), its     *)
(* registry, mission side table and alert log, the threat analyzer         *)
(* (DroneService.analyze_drone_data), the WebSocket connection manager and *)
(* the jammer, with the API handlers that touch the same state.            *)
(*                                                                         *)
(* The engine is one asyncio task.  Code between two awaits runs without   *)
(* interleaving; other coroutines (API handlers, the WebSocket endpoint)   *)
(* run only while the engine is suspended in send_json or in sleep.  The   *)
(* engine's position is pc; the handlers are guarded by Suspended.         *)
(*                                                                         *)
(* The routes, the WebSocket endpoint and the analyzer name the simulator   *)
(* and the connection manager through module globals; they are modelled as *)
(* the simulator and the manager the engine task runs on.                   *)
(*                                                                         *)
(* Abstractions: a location is the region it lies in (zone) plus the kind  *)
(* of value held in the field (GeoPoint or dict); numeric drone fields are *)
(* integers (speed in tenths of m/s, signal in percent, altitude in m);    *)
(* random draws are taken from small sets of the source ranges.            *)
(***************************************************************************)
EXTENDS Integers, Sequences, FiniteSets, TLC

\* ------------------------------------------------------------------ bounds
MaxId == 1
MaxConns == 1
MaxTicks == 2
MaxNumDrones == 2
MaxCalls == 1

\* --------------------------------------------------------------- constants
NONE == 0
LOW == 1
MEDIUM == 2
HIGH == 3
CRITICAL == 4
NoneVal == -1
WeakSignal == 20
StrongSignal == 95
FastSpeed == 300
LowAltitude == 10
HighAltitude == 1000
JamFlagLevel == 30
JamControlLevel == 80
SIM_DEFAULT_DRONES == 5

ThreatLevel == NONE..CRITICAL
Ids == 1..MaxId
Sockets == 1..MaxConns
Zones == {"restricted", "inside", "west"}

\* ------------------------------------------------------------------ helpers
Empty == [x \in {} |-> 0]
Put(f, k, v) == [x \in (DOMAIN f) \cup {k} |-> IF x = k THEN v ELSE f[x]]
Del(f, k) == [x \in (DOMAIN f) \ {k} |-> f[x]]
Range(s) == {s[i] : i \in DOMAIN s}
Max(a, b) == IF a >= b THEN a ELSE b
Min(a, b) == IF a <= b THEN a ELSE b

\* list.remove(x): drops the first occurrence of x
RECURSIVE ListRemove(_, _)
ListRemove(s, x) ==
  IF s = <<>> THEN <<>>
  ELSE IF Head(s) = x THEN Tail(s)
  ELSE <<Head(s)>> \o ListRemove(Tail(s), x)

\* ------------------------------------------------------ the threat analyzer
\* DroneService.analyze_drone_data, the level it computes.  A Python
\* truthiness test (drone.speed and ..., if drone.location.altitude:) is
\* false for None and for 0.
AnalyzeLevelLowering(d) ==
  LET t0 == d.threat
      t1 == IF (d.signal < WeakSignal \/ d.signal > StrongSignal)
               /\ t0 \in {NONE, LOW} THEN MEDIUM ELSE t0
      t2 == IF d.speed # NoneVal /\ d.speed # 0 /\ d.speed > FastSpeed
            THEN HIGH ELSE t1
      t3 == IF d.alt # NoneVal /\ d.alt # 0
               /\ (d.alt < LowAltitude \/ d.alt > HighAltitude)
               /\ t2 \in {NONE, LOW} THEN MEDIUM ELSE t2
  IN t3

\* an analyzer whose signal rule raises the level by one step
AnalyzeLevelStepping(d) ==
  LET t0 == d.threat
      t1 == IF (d.signal < WeakSignal \/ d.signal > StrongSignal)
               /\ t0 \in {NONE, LOW} THEN t0 + 1 ELSE t0
      t2 == IF d.speed # NoneVal /\ d.speed # 0 /\ d.speed > FastSpeed
               /\ t1 \in {NONE, LOW, MEDIUM} THEN HIGH ELSE t1
      t3 == IF d.alt # NoneVal /\ d.alt # 0
               /\ (d.alt < LowAltitude \/ d.alt > HighAltitude)
               /\ t2 \in {NONE, LOW} THEN MEDIUM ELSE t2
  IN t3

AnalyzeLevel(d) ==
  LET t0 == d.threat
      t1 == IF (d.signal < WeakSignal \/ d.signal > StrongSignal)
               /\ t0 \in {NONE, LOW} THEN MEDIUM ELSE t0
      t2 == IF d.speed # NoneVal /\ d.speed # 0 /\ d.speed > FastSpeed
               /\ t1 \in {NONE, LOW, MEDIUM} THEN HIGH ELSE t1
      t3 == IF d.alt # NoneVal /\ d.alt # 0
               /\ (d.alt < LowAltitude \/ d.alt > HighAltitude)
               /\ t2 \in {NONE, LOW} THEN MEDIUM ELSE t2
  IN t3

\* an analyzer that alerts on every change of level
AnalyzeAlertOnChange(d) == AnalyzeLevel(d) # d.threat

\* the alert is created when the level changed and is high or critical
AnalyzeAlert(d) ==
  AnalyzeLevel(d) # d.threat /\ AnalyzeLevel(d) \in {HIGH, CRITICAL}

\* the returned alert, if any: the drone's id and location, the new level
AnalyzeAlerts(id, d) ==
  IF AnalyzeAlert(d)
  THEN << [drone_id |-> id, alert_type |-> "unauthorized_flight",
           location |-> [zone |-> d.zone, alt |-> d.alt],
           threat_level |-> AnalyzeLevel(d)] >>
  ELSE <<>>

\* the returned drone: a copy whose threat_level is the computed level
AnalyzeDrone(d) == [d EXCEPT !.threat = AnalyzeLevel(d)]

\* ------------------------------------------------------------------- state
VARIABLES
  drones,              \* DroneSimulator.drones: id -> drone record
  drone_missions,      \* DroneSimulator.drone_missions: id -> mission record
  alerts,              \* DroneSimulator.alerts, the Alert Log
  num_drones,          \* DroneSimulator.num_drones
  active_connections,  \* ConnectionManager.active_connections (a list)
  ws,                  \* each WebSocket: "new", "open" or "closed"
  active_jammers,      \* DroneJammer.active_jammers: jammer id -> power_level
  jammer_active,       \* DroneJammer.active
  jamming_threads,     \* DroneJammer.jamming_threads: ids with a pending timer
  pc,                  \* where the engine task is
  snap,                \* ids of list(self.drones.items()) not yet visited
  detached,            \* snapshot objects that are no longer the registry's
  cur,                 \* the drone whose step-1 update is in progress
  bc,                  \* the broadcast call in progress (or the last one)
  task,                \* "running", "cancelled" (CancelledError), "failed"
  cancel,              \* "none", "requested", "delivered"
  ticks,               \* ticks started
  calls,               \* API requests served
  an,                  \* analyzer input/output of the analyzer specification
  border,              \* DroneSimulator.border: center, width, height
  hot_zones,           \* DroneSimulator.hot_zones (a list)
  fn,                  \* the call of the function under analysis and its result
  active_countermeasures  \* PhysicalCountermeasure.active_countermeasures

vars == <<drones, drone_missions, alerts, num_drones, active_connections, ws,
          active_jammers, jammer_active, jamming_threads, pc, snap, detached,
          cur, bc, task,
          cancel, ticks, calls, an, border, hot_zones, fn,
          active_countermeasures>>

engineVars == <<pc, snap, detached, cur, bc, task, cancel, ticks>>
simVars == <<drones, drone_missions, alerts, num_drones>>
jamVars == <<active_jammers, jammer_active, jamming_threads>>
connVars == <<active_connections, ws>>

DummyDrone ==
  [threat |-> NONE, signal |-> 0, speed |-> 0, alt |-> 0, heading |-> 0,
   confidence |-> 0, zone |-> "inside", locDict |-> FALSE]

NoCur ==
  [id |-> 0, upd |-> DummyDrone, lvl |-> NONE, anAlert |-> FALSE,
   missionChanged |-> FALSE, written |-> FALSE, posAppended |-> FALSE,
   anAppended |-> FALSE, hmod |-> NoneVal]

NoBc ==
  [site |-> "none", i |-> 0, sock |-> 0, failed |-> {}, sent |-> {},
   raised |-> "none"]

AnIdle == [phase |-> "idle", in |-> DummyDrone, out |-> DummyDrone, alert |-> FALSE]

\* -------------------------------------------------------- border and zones
\* Coordinates are thousandths of a degree, as offsets from the default
\* border center (settings.default_border); widths and radii likewise.
BORDER_WIDTH == 100
BORDER_HEIGHT == 100
\* A rotation is kept as the pair <<cos, sin>> of its angle in fifths, which
\* is exact for 0, 90 and 180 degrees and for the angle of the 3-4-5 triangle
\* (36.87 degrees) in both directions.
RotationScale == 5
NoRotation == <<5, 0>>
Rotations == {<<5, 0>>, <<4, 3>>, <<0, 5>>, <<-5, 0>>, <<4, -3>>}

DefaultBorder ==
  [lat |-> 0, lon |-> 0, width |-> BORDER_WIDTH, height |-> BORDER_HEIGHT,
   rotation |-> NoRotation]

\* a point turned forward by the rotation
IsPointInBorderForward(p, b) ==
  LET dx0 == p.lon - b.lon
      dy0 == p.lat - b.lat
      c == b.rotation[1]
      sn == b.rotation[2]
      dx == IF b.rotation # NoRotation THEN dx0 * c - dy0 * sn ELSE RotationScale * dx0
      dy == IF b.rotation # NoRotation THEN dx0 * sn + dy0 * c ELSE RotationScale * dy0
  IN /\ -(RotationScale * b.width) <= 2 * dx /\ 2 * dx <= RotationScale * b.width
     /\ -(RotationScale * b.height) <= 2 * dy /\ 2 * dy <= RotationScale * b.height

\* is_point_in_border: the offset from the center, turned by -rotation
\* (cos(-r) = cos r, sin(-r) = -sin r), against the half width and half
\* height; both sides of each comparison are multiplied by 2 * RotationScale
IsPointInBorder(p, b) ==
  LET dx0 == p.lon - b.lon
      dy0 == p.lat - b.lat
      c == b.rotation[1]
      sn == -b.rotation[2]
      dx == IF b.rotation # NoRotation THEN dx0 * c - dy0 * sn ELSE RotationScale * dx0
      dy == IF b.rotation # NoRotation THEN dx0 * sn + dy0 * c ELSE RotationScale * dy0
  IN /\ -(RotationScale * b.width) <= 2 * dx /\ 2 * dx <= RotationScale * b.width
     /\ -(RotationScale * b.height) <= 2 * dy /\ 2 * dy <= RotationScale * b.height

NoCall == [op |-> "none"]

\* the draws of one edge zone of _create_hot_zones: which kind of edge, the
\* side (tenths: -0.9 or 0.9), the place along it (tenths, -0.8..0.8) and the
\* radius factor (hundredths, 0.05..0.15)
EdgeZoneDraws == {[horizontal |-> TRUE, side |-> 9, along |-> 0, radius |-> 10]}
NumEdgeZones == 3
RestrictedRadiusPct == 10
FallbackDivisor == 6

EdgeZone(b, x) ==
  [lat |-> b.lat + ((b.height \div 2) * (IF x.horizontal THEN x.side ELSE x.along)) \div 10,
   lon |-> b.lon + ((b.width \div 2) * (IF x.horizontal THEN x.along ELSE x.side)) \div 10,
   radius |-> (Min(b.width, b.height) * x.radius) \div 100,
   restricted |-> FALSE]

\* _create_hot_zones: num_zones edge zones, then the restricted zone at the
\* border center
CreateHotZones(b) ==
  { [i \in 1..NumEdgeZones |-> EdgeZone(b, xs[i])] \o
      << [lat |-> b.lat, lon |-> b.lon,
          radius |-> (Min(b.width, b.height) * RestrictedRadiusPct) \div 100,
          restricted |-> TRUE] >>
    : xs \in [1..NumEdgeZones -> EdgeZoneDraws] }

\* calculate_distance(a, p) / 111.0, squared: the haversine distance taken as
\* planar, a degree of longitude being cos(16.8 deg) = 0.957 of a degree of
\* latitude at the border
LonScale == 957
Dist2(a, p) ==
  (a.lat - p.lat) * (a.lat - p.lat)
  + (((a.lon - p.lon) * LonScale) \div 1000) * (((a.lon - p.lon) * LonScale) \div 1000)

\* _is_in_restricted_zone: inside a hot zone flagged restricted, or inside
\* the circle of radius min(width, height) / 6 around the border center
IsInRestrictedZone(p, b, hz) ==
  \/ \E i \in DOMAIN hz :
       hz[i].restricted /\ Dist2(hz[i], p) < hz[i].radius * hz[i].radius
  \/ FallbackDivisor * FallbackDivisor * Dist2(b, p)
       < Min(b.width, b.height) * Min(b.width, b.height)

\* the SimulatorConfig requests drawn: each field given or None; the center
\* is given by latitude and longitude together
ConfigDraws ==
  { [num_drones |-> n, center |-> c, width |-> w, height |-> NoneVal,
     rotation |-> <<>>] :
      n \in {NoneVal, 1},
      c \in {<<>>, <<0, 100>>},
      w \in {NoneVal, 20} }

\* update_simulator_config, the border fields it assigns
UpdateBorder(b, c) ==
  [lat |-> IF c.center # <<>> THEN c.center[1] ELSE b.lat,
   lon |-> IF c.center # <<>> THEN c.center[2] ELSE b.lon,
   width |-> IF c.width # NoneVal THEN c.width ELSE b.width,
   height |-> IF c.height # NoneVal THEN c.height ELSE b.height,
   rotation |-> IF c.rotation # <<>> THEN c.rotation ELSE b.rotation]

\* _check_for_alerts, line 912: west of the border's western edge
WestOfBorder(p, b) == 2 * p.lon < 2 * b.lon - b.width

\* the region of a location, as the drone records carry it
ZoneOf(p, b, hz) ==
  IF IsInRestrictedZone(p, b, hz) THEN "restricted"
  ELSE IF WestOfBorder(p, b) THEN "west"
  ELSE "inside"

\* ------------------------------------------------------- drones and missions
\* one step up with no last element
BumpUnbounded(t) == t + 1

\* one step up in list(ThreatLevel), staying at the last element
Bump(t) == IF t < CRITICAL THEN t + 1 ELSE t

\* _random_drone_type: the type drawn; the id is the type's prefix letter and a
\* number, so drones of one type share the pool Ids of numbers
DroneTypes == {"military"}
SpawnAltitude == 100
CommercialSpeed == 100
MilitarySpeed == 350
SpawnSignal == 60
SpawnHeading == 350
SpawnConfidence == 50
ThreatDraws(ty) == IF ty = "military" THEN {MEDIUM, HIGH} ELSE {NONE, LOW}
SpawnSpeed(ty) == IF ty = "military" THEN MilitarySpeed ELSE CommercialSpeed

\* The random draws.  The specifications of the server take one value of each
\* numeric draw; the specification of the drone updates on their own
\* (pc = "update_position") takes the ends of the ranges and both signs.
Wide == pc = "update_position"

\* military: signal uniform(30, 70), speed uniform(10, 40) m/s (in tenths)
SpawnSignals(ty) == IF Wide THEN {30, 70} ELSE {SpawnSignal}
SpawnSpeeds(ty) == IF Wide THEN {100, 400} ELSE {SpawnSpeed(ty)}

\* _create_random_drone without the id: the records it can return
RandomDrones ==
  { [threat |-> IF x[3] = "restricted" THEN Bump(x[2]) ELSE x[2],
     signal |-> x[4], speed |-> x[5], alt |-> SpawnAltitude,
     heading |-> SpawnHeading, confidence |-> SpawnConfidence,
     zone |-> x[3], locDict |-> FALSE] :
      x \in UNION { {ty} \X ThreatDraws(ty) \X Zones \X SpawnSignals(ty)
                      \X SpawnSpeeds(ty) : ty \in DroneTypes } }

\* _create_drone_mission: a fresh mission has no waypoints and index 0
MissionTypeDraws == {"patrol", "reconnaissance"}
BehaviorDraws ==
  IF Wide THEN {"direct", "hovering", "evasive", "random"} ELSE {"direct"}
GridPoints == 9
NewMissions ==
  { [mission_type |-> mt, behavior |-> b, idx |-> 0, built |-> FALSE] :
      mt \in MissionTypeDraws, b \in BehaviorDraws }

\* the regions a drone can be in after one move
Moves(z) == IF z = "inside" THEN Zones ELSE {z, "inside"}

Clamp(lo, hi, x) == Max(lo, Min(hi, x))

SpeedChangeDraws == IF Wide THEN {-10, 0, 10} ELSE {0}
SignalChangeDraws == IF Wide THEN {-5, 0, 5} ELSE {0}
HeadingChangeDraws == IF Wide THEN {-15, 0, 180} ELSE {0}
HoverMinSpeed == 5
HoverMaxSpeed == 30
EvasiveMinSpeed == 50
EvasiveMaxSpeed == 400
RandomMinSpeed == 10
RandomMaxSpeed == 250

\* drone.copy(update={"location": new_location, ...}): a GeoPoint again
Moved(d, z, v) == [d EXCEPT !.zone = z, !.speed = v, !.locDict = FALSE]

\* lines 799-808: in the restricted zone the level may go up one step
ZoneBump(d) ==
  IF d.zone = "restricted" THEN {d, [d EXCEPT !.threat = Bump(d.threat)]}
  ELSE {d}

Outcome(d, m, completed, exc) ==
  [drone |-> d, m |-> m, completed |-> completed, exc |-> exc]

\* a mission update in which any behaviour may fall back to direct flight
UpdateMissionRestless(d, m) ==
  {Outcome(d, m, TRUE, "none")}
  \cup { Outcome(Moved(d, z, d.speed), [m EXCEPT !.behavior = b], FALSE, "none")
         : z \in Moves(d.zone), b \in {m.behavior, "direct"} }

\* _update_drone_mission: the (drone, mission, completed) results, or the
\* exception it raises.  The mission dict is mutated in place.
MissionFlown(d, m) ==
  (CASE m.behavior = "direct" ->
         UNION { { Outcome(d2, m, FALSE, "none") : d2 \in ZoneBump(Moved(d, z, d.speed)) }
                 : z \in Moves(d.zone) }
         \cup (IF m.mission_type = "patrol"
               THEN UNION { { Outcome(d2, [m EXCEPT !.behavior = "circling"], FALSE, "none")
                              : d2 \in ZoneBump(Moved(d, z, d.speed)) } : z \in Moves(d.zone) }
               ELSE IF m.mission_type = "infiltration"
               THEN UNION { { Outcome(d2, [m EXCEPT !.behavior = "hovering"], FALSE, "none")
                              : d2 \in ZoneBump(Moved(d, z, d.speed)) } : z \in Moves(d.zone) }
               ELSE {Outcome(d, m, TRUE, "none")})
     [] m.behavior = "circling" ->
         UNION { { Outcome(d2, m, FALSE, "none") : d2 \in ZoneBump(Moved(d, z, d.speed)) }
                 : z \in Moves(d.zone) }
     [] m.behavior = "hovering" ->
         UNION { { Outcome(d2, m, FALSE, "none")
                   : d2 \in ZoneBump(Moved(d, z, Clamp(HoverMinSpeed, HoverMaxSpeed, d.speed \div 2))) }
                 : z \in Moves(d.zone) }
     [] m.behavior = "evasive" ->
         UNION { { Outcome(d2, m, FALSE, "none")
                   : d2 \in ZoneBump(Moved(d, zc[1], Clamp(EvasiveMinSpeed, EvasiveMaxSpeed, d.speed + zc[2]))) }
                 : zc \in Moves(d.zone) \X SpeedChangeDraws }
     [] m.behavior = "random" ->
         UNION { { Outcome(d2, m, FALSE, "none")
                   : d2 \in ZoneBump(Moved(d, zc[1], Clamp(RandomMinSpeed, RandomMaxSpeed, d.speed + zc[2]))) }
                 : zc \in Moves(d.zone) \X SpeedChangeDraws }
     [] m.behavior = "grid" ->
         LET m0 == IF m.built THEN m ELSE [m EXCEPT !.built = TRUE, !.idx = 0]
         IN IF m0.idx >= GridPoints
            THEN { Outcome(d, [m0 EXCEPT !.idx = 0], FALSE, "IndexError"),
                   Outcome(d, [m0 EXCEPT !.behavior = "hovering"], FALSE, "none") }
            ELSE UNION { { Outcome(d2, mm, FALSE, "none")
                           : d2 \in ZoneBump(Moved(d, z, d.speed)) }
                         : z \in Moves(d.zone), mm \in {m0, [m0 EXCEPT !.idx = m0.idx + 1]} })

\* an expiry check that spares the behaviours that hold a position
MissionExpiredUnlessHolding(d, m) ==
  {Outcome(d, m, m.behavior \notin {"hovering", "circling"}, "none")}

\* _update_drone_mission when the elapsed time exceeds the duration: the
\* drone is returned as it is, the mission completed
MissionExpired(d, m) == {Outcome(d, m, TRUE, "none")}

UpdateMission(d, m) == MissionExpired(d, m) \cup MissionFlown(d, m)

\* the heading of an updated copy: every branch that moves the drone
\* assigns (angle) % 360, the angle being the old heading plus noise or
\* plus 180 (turning back at the border)
Turned(d, d2) ==
  {[d2 EXCEPT !.heading = (d.heading + h) % 360] : h \in HeadingChangeDraws}

\* _update_drone_position: [drone, ms, exc], ms the mission table afterwards;
\* os are the results of _update_drone_mission for a drone with a mission
UpdatePositionOf(id, d, ms, os) ==
  IF id \in DOMAIN ms
  THEN UNION {
         IF o.exc # "none"
           THEN {[drone |-> d, ms |-> Put(ms, id, o.m), exc |-> o.exc]}
         ELSE IF o.completed
           THEN {[drone |-> o.drone, ms |-> Del(ms, id), exc |-> "none"]}
                \cup {[drone |-> o.drone, ms |-> Put(ms, id, nm), exc |-> "none"]
                      : nm \in NewMissions}
         ELSE {[drone |-> d2, ms |-> Put(ms, id, o.m), exc |-> "none"]
               : d2 \in Turned(d, o.drone)}
         : o \in os }
  ELSE IF d.speed = NoneVal
  THEN {[drone |-> d, ms |-> ms, exc |-> "none"]}
  ELSE UNION {
         LET d2 == [Moved(d, x[1], Max(0, d.speed + x[2]))
                    EXCEPT !.signal = Clamp(0, 100, d.signal + x[3]),
                           !.heading = (d.heading + x[4]) % 360]
         IN {[drone |-> d2, ms |-> ms, exc |-> "none"]}
            \cup {[drone |-> d2, ms |-> Put(ms, id, nm), exc |-> "none"]
                  : nm \in NewMissions}
         : x \in Moves(d.zone) \X SpeedChangeDraws \X SignalChangeDraws
                 \X HeadingChangeDraws }

UpdatePosition(id, d, ms) ==
  UpdatePositionOf(id, d, ms,
                   IF id \in DOMAIN ms THEN UpdateMission(d, ms[id]) ELSE {})

\* analyze_drone_data reads drone.location.altitude: a dict has no attribute
AnalyzeRaises(d) == d.locDict

\* _check_for_alerts: the first check that applies, as a list of 0 or 1 alert
Alert(id, ty, level) == [drone_id |-> id, alert_type |-> ty, threat_level |-> level]

\* a check that looks at the threat level before the zones
CheckForAlertsThreatFirst(id, d) ==
  IF d.threat \in {HIGH, CRITICAL}
  THEN <<Alert(id, "unauthorized_flight", d.threat)>>
  ELSE IF d.zone = "restricted" THEN <<Alert(id, "restricted_zone", d.threat)>>
  ELSE IF d.zone = "west" THEN <<Alert(id, "border_violation", HIGH)>>
  ELSE <<>>

\* _check_for_alerts: the first test that applies decides the alert
CheckForAlerts(id, d) ==
  IF d.zone = "restricted" THEN <<Alert(id, "restricted_zone", d.threat)>>
  ELSE IF d.zone = "west" THEN <<Alert(id, "border_violation", HIGH)>>
  ELSE IF d.threat \in {HIGH, CRITICAL}
       THEN <<Alert(id, "unauthorized_flight", d.threat)>>
  ELSE <<>>

\* ------------------------------------------------------------------ jammer
JamDistance == 100
PowerDraws == {60, 100}

MaxPower(jam) ==
  IF DOMAIN jam = {} THEN 0
  ELSE CHOOSE p \in {jam[j] : j \in DOMAIN jam} :
         \A q \in {jam[j] : j \in DOMAIN jam} : q <= p

\* jamming_effect = max power * min(1.0, 100 / max(1, distance_meters))
JammingEffect(jam, dist) == (MaxPower(jam) * Min(100, 10000 \div Max(1, dist))) \div 100

\* a jammer that subtracts without the floor at 0
SimulateJammingEffectUnfloored(d, jam, active, dist) ==
  IF ~active THEN d
  ELSE LET e == JammingEffect(jam, dist)
       IN [d EXCEPT !.signal = d.signal - (e * 5) \div 10,
                    !.threat = IF e > JamControlLevel THEN HIGH ELSE d.threat]

\* DroneJammer.simulate_jamming_effect on drone.dict(): the declared fields
\* of the returned dict (is_jammed, jamming_level, control_compromised are
\* keys of the dict only; Drone has no such attributes)
SimulateJammingEffect(d, jam, active, dist) ==
  IF ~active THEN d
  ELSE LET e == JammingEffect(jam, dist)
       IN [d EXCEPT !.signal = Max(0, d.signal - (e * 5) \div 10),
                    !.threat = IF e > JamControlLevel THEN HIGH ELSE d.threat]

IsJammed(jam, active, dist) == active /\ JammingEffect(jam, dist) > JamFlagLevel

\* DroneTakeover.simulate_takeover_effect on a targeted drone, by command;
\* "resisting" is the draw in which the takeover does not succeed (a
\* simulated drone always has an altitude and a speed)
TakeoverCommands ==
  {"resisting", "land", "rth", "hover", "move_to", "shutdown", "disconnect"}
LandDescent == 10
ShutdownDescent == 50
HoverSpeed == 10

SimulateTakeoverEffect(d, cmd) ==
  CASE cmd = "land" ->
         [d EXCEPT !.alt = Max(0, d.alt - LandDescent),
                   !.speed = Max(0, d.speed \div 2)]
    [] cmd = "hover" -> [d EXCEPT !.speed = Min(d.speed, HoverSpeed)]
    [] cmd = "shutdown" ->
         [d EXCEPT !.alt = Max(0, d.alt - ShutdownDescent),
                   !.speed = 0]
    [] cmd = "disconnect" -> [d EXCEPT !.signal = 0]
    [] OTHER -> d

\* for key, value in updated_data.items(): setattr(drone, key, value)
\* location is assigned the dict that drone.dict() made of the GeoPoint
SetAttrs(data) == [data EXCEPT !.locDict = TRUE]

\* --------------------------------------------------------------- exceptions
\* the classes caught by "except Exception"; asyncio.CancelledError derives
\* from BaseException
IsExceptionPy37(exc) ==
  exc \in {"WebSocketDisconnect", "RuntimeError", "ValueError", "AttributeError",
           "IndexError", "CancelledError"}

IsException(exc) ==
  exc \in {"WebSocketDisconnect", "RuntimeError", "ValueError", "AttributeError",
           "IndexError"}

\* the try blocks around a broadcast call, by call site: analyze_drone_data
\* and the countermeasures status broadcast catch Exception and log it
SiteCatches(site, exc) == site \in {"analyze", "status"} /\ IsException(exc)

\* run_simulation re-raises what reaches it: how the task ends
TaskOutcome(exc) == IF exc = "CancelledError" THEN "cancelled" ELSE "failed"

\* where run_simulation resumes when a broadcast call returns
AfterBroadcast(site) ==
  CASE site = "analyze" -> "write"
    [] site = "position" -> "post"
    [] site = "spawn" -> "drones"
    [] site = "drones" -> "status"
    [] site = "status" -> "sleep"

\* ---------------------------------------------------------------- the engine
Suspended == pc \in {"send", "sleep"}

Obj(id) == IF id \in DOMAIN detached THEN detached[id] ELSE drones[id]

\* the engine task ends with exception exc
Ends(exc) ==
  /\ pc' = "done"
  /\ task' = TaskOutcome(exc)

StartBroadcast(site) == [NoBc EXCEPT !.site = site]

\* run_simulation, lines 980-987: num_drones drones, each with a mission
\* with probability 0.8; one dict entry per distinct id
SpawnInto(s) ==
  UNION { { [drones |-> Put(s.drones, id, d), ms |-> mm] :
              d \in RandomDrones,
              mm \in {s.ms} \cup {Put(s.ms, id, nm) : nm \in NewMissions} }
          : id \in Ids }

RECURSIVE InitLoop(_)
InitLoop(k) ==
  IF k = 0 THEN {[drones |-> drones, ms |-> drone_missions]}
  ELSE UNION {SpawnInto(s) : s \in InitLoop(k - 1)}

EngineStart ==
  /\ pc = "start"
  /\ \E s \in InitLoop(num_drones) :
       /\ drones' = s.drones
       /\ drone_missions' = s.ms
  /\ pc' = "tick"
  /\ UNCHANGED <<alerts, num_drones, connVars, jamVars, snap, detached, cur, bc,
                 task, cancel, ticks, calls, an,
                 border, hot_zones, active_countermeasures, fn>>

\* while True: for drone_id, drone in list(self.drones.items())
TickBegin ==
  /\ pc = "tick"
  /\ ticks < MaxTicks
  /\ ticks' = ticks + 1
  /\ snap' = DOMAIN drones
  /\ detached' = Empty
  /\ cur' = NoCur
  /\ pc' = "step1"
  /\ UNCHANGED <<simVars, connVars, jamVars, bc, task, cancel, calls, an,
                 border, hot_zones, active_countermeasures, fn>>

\* lines 992-997: _update_drone_position, then analyze_drone_data up to its
\* broadcast (made only when an alert was created and a subscriber exists)
StepUpdate ==
  /\ pc = "step1"
  /\ \E id \in snap :
     \E u \in UpdatePosition(id, Obj(id), drone_missions) :
       /\ snap' = snap \ {id}
       /\ drone_missions' = u.ms
       /\ cur' = [NoCur EXCEPT !.id = id, !.upd = u.drone,
                               !.lvl = AnalyzeLevel(u.drone),
                               !.anAlert = AnalyzeAlert(u.drone),
                               !.missionChanged = (u.ms # drone_missions)]
       /\ IF u.exc # "none" THEN Ends(u.exc) /\ bc' = bc
          ELSE IF AnalyzeRaises(u.drone) THEN Ends("AttributeError") /\ bc' = bc
          ELSE IF AnalyzeAlert(u.drone) /\ active_connections # <<>>
            THEN pc' = "bcast" /\ bc' = StartBroadcast("analyze") /\ task' = task
          ELSE pc' = "write" /\ bc' = bc /\ task' = task
  /\ UNCHANGED <<drones, alerts, num_drones, connVars, jamVars, detached, cancel,
                 ticks, calls, an,
                 border, hot_zones, active_countermeasures, fn>>

\* lines 1000-1012: write the analysed drone back, check the zone and border
\* alerts, append the alert and broadcast it
WriteBack ==
  /\ pc = "write"
  /\ LET d == [cur.upd EXCEPT !.threat = cur.lvl]
         pa == CheckForAlerts(cur.id, d)
     IN /\ drones' = Put(drones, cur.id, d)
        /\ alerts' = alerts \o pa
        /\ cur' = [cur EXCEPT !.written = TRUE, !.posAppended = (pa # <<>>)]
        /\ IF pa # <<>>
           THEN pc' = "bcast" /\ bc' = StartBroadcast("position")
           ELSE pc' = "post" /\ bc' = bc
  /\ UNCHANGED <<drone_missions, num_drones, connVars, jamVars, snap, detached,
                 task, cancel, ticks, calls, an,
                 border, hot_zones, active_countermeasures, fn>>

\* the analyzer's alert put in front of the drone's zone/border alert
PostPositionAnalyzerFirst ==
  /\ pc = "post"
  /\ alerts' = IF ~cur.anAlert THEN alerts
               ELSE IF cur.posAppended /\ alerts # <<>>
               THEN SubSeq(alerts, 1, Len(alerts) - 1)
                    \o <<Alert(cur.id, "unauthorized_flight", cur.lvl),
                         alerts[Len(alerts)]>>
               ELSE Append(alerts, Alert(cur.id, "unauthorized_flight", cur.lvl))
  /\ cur' = NoCur
  /\ pc' = "step1"
  /\ UNCHANGED <<drones, drone_missions, num_drones, connVars, jamVars, snap,
                 detached, bc, task, cancel, ticks, calls, an,
                 border, hot_zones, active_countermeasures, fn>>

\* lines 1014-1016: the analyzer's alert is appended last
PostPosition ==
  /\ pc = "post"
  /\ alerts' = IF cur.anAlert
               THEN Append(alerts, Alert(cur.id, "unauthorized_flight", cur.lvl))
               ELSE alerts
  /\ cur' = NoCur
  /\ pc' = "step1"
  /\ UNCHANGED <<drones, drone_missions, num_drones, connVars, jamVars, snap,
                 detached, bc, task, cancel, ticks, calls, an,
                 border, hot_zones, active_countermeasures, fn>>

\* apply_countermeasure_effects over list(self.drones.items()), in id order
RECURSIVE CmAlerts(_, _)
CmAlerts(ids, ds) ==
  IF ids = {} THEN <<>>
  ELSE LET id == CHOOSE x \in ids : \A y \in ids : x <= y
       IN (IF IsJammed(active_jammers, jammer_active, JamDistance)
           THEN <<Alert(id, "signal_interference", ds[id].threat)>>
           ELSE <<>>) \o CmAlerts(ids \ {id}, ds)

Countermeasures ==
  /\ pc = "step1"
  /\ snap = {}
  /\ LET ds == [id \in DOMAIN drones |->
                  SetAttrs(SimulateJammingEffect(drones[id], active_jammers,
                                                 jammer_active, JamDistance))]
     IN /\ drones' = ds
        /\ alerts' = alerts \o CmAlerts(DOMAIN drones, ds)
  /\ pc' = "spawn"
  /\ UNCHANGED <<drone_missions, num_drones, connVars, jamVars, snap, detached,
                 cur, bc, task, cancel, ticks, calls, an,
                 border, hot_zones, active_countermeasures, fn>>

\* lines 1022-1047: the 5% event took the spawn branch
SpawnStep ==
  /\ pc = "spawn"
  /\ Cardinality(DOMAIN drones) < num_drones + 3
  /\ \E id \in Ids, d \in RandomDrones :
       /\ drones' = Put(drones, id, d)
       /\ drone_missions' \in {drone_missions}
                                \cup {Put(drone_missions, id, nm) : nm \in NewMissions}
       /\ alerts' = Append(alerts, Alert(id, "new_detection", d.threat))
  /\ pc' = "bcast"
  /\ bc' = StartBroadcast("spawn")
  /\ UNCHANGED <<num_drones, connVars, jamVars, snap, detached, cur, task, cancel,
                 ticks, calls, an,
                 border, hot_zones, active_countermeasures, fn>>

\* lines 1048-1055: the elif branch, taken when the spawn condition is false
\* (the 0.7 draw failed or the registry is at num_drones + 3)
RetireStep ==
  /\ pc = "spawn"
  /\ DOMAIN drones # {}
  /\ Cardinality(DOMAIN drones) > num_drones - 2
  /\ \E id \in DOMAIN drones :
       /\ drones' = Del(drones, id)
       /\ drone_missions' = Del(drone_missions, id)
  /\ pc' = "drones"
  /\ UNCHANGED <<alerts, num_drones, connVars, jamVars, snap, detached, cur, bc,
                 task, cancel, ticks, calls, an,
                 border, hot_zones, active_countermeasures, fn>>

\* no event this tick, or neither branch applies
NoSpawnRetire ==
  /\ pc = "spawn"
  /\ pc' = "drones"
  /\ UNCHANGED <<simVars, connVars, jamVars, snap, detached, cur, bc, task, cancel,
                 ticks, calls, an,
                 border, hot_zones, active_countermeasures, fn>>

\* lines 1057-1077: the drones broadcast, then the countermeasures status
BroadcastDrones ==
  /\ pc = "drones"
  /\ pc' = "bcast"
  /\ bc' = StartBroadcast("drones")
  /\ UNCHANGED <<simVars, connVars, jamVars, snap, detached, cur, task, cancel,
                 ticks, calls, an,
                 border, hot_zones, active_countermeasures, fn>>

BroadcastStatus ==
  /\ pc = "status"
  /\ pc' = "bcast"
  /\ bc' = StartBroadcast("status")
  /\ UNCHANGED <<simVars, connVars, jamVars, snap, detached, cur, task, cancel,
                 ticks, calls, an,
                 border, hot_zones, active_countermeasures, fn>>

\* ConnectionManager.broadcast: "for connection in self.active_connections"
\* is a list iterator, an index into the live list
BcastNext ==
  /\ pc = "bcast"
  /\ IF bc.i < Len(active_connections)
     THEN /\ bc' = [bc EXCEPT !.i = bc.i + 1, !.sock = active_connections[bc.i + 1]]
          /\ pc' = "send"
     ELSE /\ bc' = [bc EXCEPT !.sock = 0]
          /\ pc' = "bret"
  /\ UNCHANGED <<simVars, connVars, jamVars, snap, detached, cur, task, cancel,
                 ticks, calls, an,
                 border, hot_zones, active_countermeasures, fn>>

\* the broadcast call returned normally
BcastReturn ==
  /\ pc = "bret"
  /\ pc' = AfterBroadcast(bc.site)
  /\ UNCHANGED <<simVars, connVars, jamVars, snap, detached, cur, bc, task, cancel,
                 ticks, calls, an,
                 border, hot_zones, active_countermeasures, fn>>

\* exception exc leaves the broadcast call made at bc.site
RaiseFromBroadcast(exc, failed) ==
  /\ bc' = [bc EXCEPT !.raised = exc, !.failed = failed]
  /\ IF SiteCatches(bc.site, exc)
     THEN pc' = AfterBroadcast(bc.site) /\ task' = task
     ELSE Ends(exc)
  /\ active_connections' = active_connections

\* "await connection.send_json(message)" resumes with exc ("ok": it returned)
\* inside try / except WebSocketDisconnect / except Exception
Resume(exc) ==
  IF exc = "ok"
    THEN /\ pc' = "bcast"
         /\ bc' = [bc EXCEPT !.sent = bc.sent \cup {bc.sock}]
         /\ UNCHANGED <<task, active_connections>>
  ELSE IF exc = "WebSocketDisconnect"
    THEN IF bc.sock \in Range(active_connections)
         THEN /\ active_connections' = ListRemove(active_connections, bc.sock)
              /\ bc' = [bc EXCEPT !.failed = bc.failed \cup {bc.sock}]
              /\ pc' = "bcast"
              /\ task' = task
         ELSE RaiseFromBroadcast("ValueError", bc.failed \cup {bc.sock})
  ELSE IF IsException(exc)
    THEN /\ bc' = [bc EXCEPT !.failed = bc.failed \cup {bc.sock}]
         /\ pc' = "bcast"
         /\ UNCHANGED <<task, active_connections>>
  ELSE RaiseFromBroadcast(exc, bc.failed)

SendOutcomes == {"ok", "WebSocketDisconnect", "RuntimeError"}

SendComplete ==
  /\ pc = "send"
  /\ cancel # "requested"
  /\ \E exc \in SendOutcomes : Resume(exc)
  /\ UNCHANGED <<simVars, ws, jamVars, snap, detached, cur, cancel, ticks, calls, an,
                 border, hot_zones, active_countermeasures, fn>>

\* task.cancel() while the task waits in send_json: CancelledError is thrown
\* into the coroutine at that await
CancelInSend ==
  /\ pc = "send"
  /\ cancel = "requested"
  /\ cancel' = "delivered"
  /\ Resume("CancelledError")
  /\ UNCHANGED <<simVars, ws, jamVars, snap, detached, cur, ticks, calls, an,
                 border, hot_zones, active_countermeasures, fn>>

\* await asyncio.sleep(self.update_interval)
Wake ==
  /\ pc = "sleep"
  /\ cancel # "requested"
  /\ pc' = "tick"
  /\ UNCHANGED <<simVars, connVars, jamVars, snap, detached, cur, bc, task, cancel,
                 ticks, calls, an,
                 border, hot_zones, active_countermeasures, fn>>

CancelInSleep ==
  /\ pc = "sleep"
  /\ cancel = "requested"
  /\ cancel' = "delivered"
  /\ Ends("CancelledError")
  /\ UNCHANGED <<simVars, connVars, jamVars, snap, detached, cur, bc, ticks, calls, an,
                 border, hot_zones, active_countermeasures, fn>>

\* ---------------------------------------------------- the other coroutines
\* lifespan shutdown: simulator_task.cancel()
Cancel ==
  /\ Suspended
  /\ cancel = "none"
  /\ cancel' = "requested"
  /\ UNCHANGED <<simVars, connVars, jamVars, pc, snap, detached, cur, bc, task,
                 ticks, calls, an,
                 border, hot_zones, active_countermeasures, fn>>

\* websocket_endpoint: manager.connect(websocket)
Connect(c) ==
  /\ Suspended
  /\ ws[c] = "new"
  /\ ws' = [ws EXCEPT ![c] = "open"]
  /\ active_connections' = Append(active_connections, c)
  /\ UNCHANGED <<simVars, jamVars, engineVars, calls, an,
                 border, hot_zones, active_countermeasures, fn>>

\* websocket_endpoint: receive_text raised WebSocketDisconnect, then
\* manager.disconnect(websocket); list.remove of an absent element raises
\* in the endpoint and changes nothing
Disconnect(c) ==
  /\ Suspended
  /\ ws[c] = "open"
  /\ ws' = [ws EXCEPT ![c] = "closed"]
  /\ active_connections' = ListRemove(active_connections, c)
  /\ UNCHANGED <<simVars, jamVars, engineVars, calls, an,
                 border, hot_zones, active_countermeasures, fn>>

\* the snapshot entries that stop being the registry's objects when the
\* registry entries of ids are replaced or removed
Detach(ids) ==
  [id \in (DOMAIN detached) \cup (ids \cap snap \cap DOMAIN drones) |->
     IF id \in DOMAIN detached THEN detached[id] ELSE drones[id]]

\* POST /system/simulator/add_drone
AddTestDrone ==
  /\ Suspended
  /\ calls < MaxCalls
  /\ calls' = calls + 1
  /\ \E id \in Ids, d \in RandomDrones :
       /\ drones' = Put(drones, id, d)
       /\ detached' = Detach({id})
  /\ UNCHANGED <<drone_missions, alerts, num_drones, connVars, jamVars, pc, snap,
                 cur, bc, task, cancel, ticks, an,
                 border, hot_zones, active_countermeasures, fn>>

\* POST /system/simulator/config: the fields given are assigned
UpdateConfig(c) ==
  /\ Suspended
  /\ calls < MaxCalls
  /\ calls' = calls + 1
  /\ num_drones' = IF c.num_drones # NoneVal THEN c.num_drones ELSE num_drones
  /\ border' = UpdateBorder(border, c)
  /\ UNCHANGED <<drones, drone_missions, alerts, connVars, jamVars, engineVars,
                 an, hot_zones, active_countermeasures, fn>>

\* POST /system/simulator/reset: drones.clear(), alerts.clear()
Reset ==
  /\ Suspended
  /\ calls < MaxCalls
  /\ calls' = calls + 1
  /\ drones' = Empty
  /\ alerts' = <<>>
  /\ detached' = Detach(DOMAIN drones)
  /\ UNCHANGED <<drone_missions, num_drones, connVars, jamVars, pc, snap, cur, bc,
                 task, cancel, ticks, an,
                 border, hot_zones, active_countermeasures, fn>>

\* POST /jam: jammer.activate_jamming(jammer_id = "api_<drone_id>"), then the
\* effect at 100 m is copied onto the registry's drone object; the request
\* has "duration": null, so that no timer is started
ActivateJamming(id, power) ==
  /\ Suspended
  /\ calls < MaxCalls
  /\ calls' = calls + 1
  /\ id \in DOMAIN drones
  /\ LET jam == Put(active_jammers, id, power)
         d == SetAttrs(SimulateJammingEffect(drones[id], jam, TRUE, JamDistance))
     IN /\ active_jammers' = jam
        /\ jammer_active' = TRUE
        /\ drones' = Put(drones, id, d)
        /\ cur' = IF pc = "send" /\ bc.site = "analyze" /\ cur.id = id
                  THEN [cur EXCEPT !.hmod = d.signal] ELSE cur
  /\ UNCHANGED <<jamming_threads, drone_missions, alerts, num_drones, connVars, pc, snap, detached,
                 bc, task, cancel, ticks, an,
                 border, hot_zones, active_countermeasures, fn>>

\* ------------------------------------------------------------ specification
Init ==
  /\ drones = Empty
  /\ drone_missions = Empty
  /\ alerts = <<>>
  /\ num_drones \in 1..MaxNumDrones
  /\ active_connections = <<>>
  /\ ws = [c \in Sockets |-> "new"]
  /\ active_jammers = Empty
  /\ jammer_active = FALSE
  /\ jamming_threads = {}
  /\ pc = "start"
  /\ snap = {}
  /\ detached = Empty
  /\ cur = NoCur
  /\ bc = NoBc
  /\ task = "running"
  /\ cancel = "none"
  /\ ticks = 0
  /\ calls = 0
  /\ an = AnIdle
  /\ active_countermeasures = <<>>
  /\ border = DefaultBorder
  /\ hot_zones \in CreateHotZones(DefaultBorder)
  /\ fn = NoCall

EngineNext ==
  \/ EngineStart
  \/ TickBegin
  \/ StepUpdate
  \/ WriteBack
  \/ PostPosition
  \/ Countermeasures
  \/ SpawnStep
  \/ RetireStep
  \/ NoSpawnRetire
  \/ BroadcastDrones
  \/ BroadcastStatus
  \/ BcastNext
  \/ BcastReturn
  \/ SendComplete
  \/ Wake


Next ==
  \/ EngineNext
  \/ Cancel
  \/ CancelInSend
  \/ CancelInSleep
  \/ \E c \in Sockets : Connect(c)
  \/ \E c \in Sockets : Disconnect(c)

NextApi ==
  \/ EngineNext
  \/ \E c \in Sockets : Connect(c)
  \/ AddTestDrone
  \/ Reset
  \/ \E id \in Ids, p \in PowerDraws : ActivateJamming(id, p)
  \/ \E c \in ConfigDraws : UpdateConfig(c)

\* ------------------------------------------- functions checked on their own
\* the simulator outside a running server: no task, no subscriber, no request
Standalone(p) ==
  /\ num_drones = SIM_DEFAULT_DRONES
  /\ active_connections = <<>>
  /\ ws = [c \in Sockets |-> "new"]
  /\ active_jammers = Empty
  /\ jammer_active = FALSE
  /\ jamming_threads = {}
  /\ pc = p
  /\ snap = {}
  /\ detached = Empty
  /\ cur = NoCur
  /\ bc = NoBc
  /\ task = "running"
  /\ cancel = "none"
  /\ ticks = 0
  /\ calls = 0
  /\ an = AnIdle
  /\ active_countermeasures = <<>>

Coords == {-60, -50, -17, -16, -12, 0, 1, 12, 16, 17, 20, 50}
Points == {[lat |-> y, lon |-> x] : y \in Coords, x \in Coords}

\* the borders update_simulator_config can leave behind a layout of hot zones
\* generated for the default border
MovedBorders == {UpdateBorder(DefaultBorder, c) : c \in ConfigDraws}

\* the drone of the model's registry that stands at a location
DroneAt(a, b, hz) ==
  [DummyDrone EXCEPT !.zone = ZoneOf(a.loc, b, hz), !.threat = a.threat,
                     !.signal = SpawnSignal, !.alt = SpawnAltitude]

\* _check_for_alerts(drone) for a drone given by location and threat level
CheckForAlertsAt(id, a, b, hz) == CheckForAlerts(id, DroneAt(a, b, hz))

InitAlerts ==
  /\ Standalone("check_for_alerts")
  /\ drone_missions = Empty
  /\ border \in MovedBorders
  /\ hot_zones \in CreateHotZones(DefaultBorder)
  /\ \E p \in Points, t \in ThreatLevel :
       /\ fn = [op |-> "pending", id |-> 1, arg |-> [loc |-> p, threat |-> t]]
       /\ drones = Put(Empty, 1, DroneAt(fn.arg, border, hot_zones))
  /\ alerts \in {<<>>, <<Alert(1, "restricted_zone", CRITICAL)>>}

\* one call of _check_for_alerts on a drone of the registry
CheckAlerts ==
  /\ fn.op = "pending"
  /\ fn' = [fn EXCEPT !.op = "check_for_alerts"] @@
           [res |-> CheckForAlertsAt(fn.id, fn.arg, border, hot_zones)]
  /\ UNCHANGED <<simVars, connVars, jamVars, engineVars, calls, an,
                 border, hot_zones, active_countermeasures>>

SpecAlerts == InitAlerts /\ [][CheckAlerts]_vars

\* _create_random_drone on its own: the type, the level drawn from the type's
\* list and the location drawn by _generate_random_location
AllDroneTypes == {"commercial", "diy", "military", "unknown"}

TypeThreatLevels(ty) ==
  CASE ty = "military" -> {MEDIUM, HIGH, CRITICAL}
    [] ty = "commercial" -> {NONE, LOW, MEDIUM}
    [] OTHER -> {LOW, MEDIUM, HIGH}

\* lines 338-343 and 392-403: the level of the new drone
CreateRandomDrone(ty, t, p, b, hz) ==
  [threat |-> IF IsInRestrictedZone(p, b, hz) THEN Bump(t) ELSE t,
   signal |-> SpawnSignal, speed |-> SpawnSpeed(ty), alt |-> SpawnAltitude,
   heading |-> SpawnHeading, confidence |-> SpawnConfidence,
   zone |-> ZoneOf(p, b, hz), locDict |-> FALSE]

InitSpawn ==
  /\ Standalone("create_random_drone")
  /\ drone_missions = Empty
  /\ border \in MovedBorders
  /\ hot_zones \in CreateHotZones(DefaultBorder)
  /\ drones = Empty
  /\ alerts = <<>>
  /\ \E ty \in AllDroneTypes, p \in Points :
       \E t \in TypeThreatLevels(ty) :
         fn = [op |-> "pending", arg |-> [type |-> ty, threat |-> t, loc |-> p]]

\* one call of _create_random_drone with these draws
CreateDrone ==
  /\ fn.op = "pending"
  /\ fn' = [op |-> "create_random_drone", arg |-> fn.arg,
            res |-> CreateRandomDrone(fn.arg.type, fn.arg.threat, fn.arg.loc,
                                      border, hot_zones)]
  /\ UNCHANGED <<simVars, connVars, jamVars, engineVars, calls, an,
                 border, hot_zones, active_countermeasures>>

SpecSpawn == InitSpawn /\ [][CreateDrone]_vars

\* simulate_jamming_effect on its own: the dict it returns for a drone's
\* dict, the registered jammers, the active flag and the distance
JammingSnapshot(d, jam, active, dist) ==
  [drone |-> SimulateJammingEffect(d, jam, active, dist),
   is_jammed |-> IsJammed(jam, active, dist),
   control_compromised |-> active /\ JammingEffect(jam, dist) > JamControlLevel]

JamPowerDraws == {1, 31, 60, 80, 81, 100}
JamDistanceDraws == {50, 100, 120, 1000}
JamSignalDraws == {0, 30, 60}

InitJam ==
  /\ Standalone("simulate_jamming_effect")
  /\ drone_missions = Empty
  /\ border = DefaultBorder
  /\ hot_zones \in CreateHotZones(DefaultBorder)
  /\ drones = Empty
  /\ alerts = <<>>
  /\ \E t \in ThreatLevel, sg \in JamSignalDraws, dist \in JamDistanceDraws,
        active \in BOOLEAN,
        jam \in {Empty} \cup {Put(Empty, 1, p) : p \in JamPowerDraws} :
       fn = [op |-> "pending",
             arg |-> [drone |-> [DummyDrone EXCEPT !.threat = t, !.signal = sg],
                      jam |-> jam, active |-> active, dist |-> dist]]

\* one call of simulate_jamming_effect
JamEffect ==
  /\ fn.op = "pending"
  /\ fn' = [op |-> "simulate_jamming_effect", arg |-> fn.arg,
            res |-> JammingSnapshot(fn.arg.drone, fn.arg.jam, fn.arg.active,
                                    fn.arg.dist)]
  /\ UNCHANGED <<simVars, connVars, jamVars, engineVars, calls, an,
                 border, hot_zones, active_countermeasures>>

SpecJam == InitJam /\ [][JamEffect]_vars

\* the physical countermeasure on its own: operations in the order of their
\* start_time, the timer that completes one, an abort, and the capture effect
\* on the snapshot of a drone
MaxOps == 2
CaptureMethods == {"net_gun", "capture_drone"}
NoCapture == [captured |-> FALSE, capture_method |-> "none", approaching |-> FALSE]

\* simulate_capture_effect: the keys it adds to the drone's dict; inProgress
\* is the draw progress < 1.0
SimulateCaptureEffect(id, ops, inProgress) ==
  LET act == {o \in DOMAIN ops : ops[o].drone_id = id /\ ops[o].active}
  IN IF act = {} THEN NoCapture
     ELSE LET o == CHOOSE x \in act : \A y \in act : y <= x
          IN IF ops[o].status \in {"success", "failed"}
             THEN IF ops[o].status = "success"
                  THEN [NoCapture EXCEPT !.captured = TRUE,
                                         !.capture_method = ops[o].method]
                  ELSE NoCapture
             ELSE [NoCapture EXCEPT !.approaching = inProgress]

InitCapture ==
  /\ Standalone("capture")
  /\ drone_missions = Empty
  /\ border = DefaultBorder
  /\ hot_zones \in CreateHotZones(DefaultBorder)
  /\ fn = NoCall
  /\ alerts = <<>>
  /\ \E d \in RandomDrones : drones = Put(Empty, 1, d)

\* deploy_countermeasure with the equipment available and ready
DeployCountermeasure(id, method) ==
  /\ Len(active_countermeasures) < MaxOps
  /\ active_countermeasures' =
       Append(active_countermeasures,
              [drone_id |-> id, method |-> method, active |-> TRUE,
               status |-> "deploying"])
  /\ UNCHANGED <<simVars, connVars, jamVars, engineVars, calls, an,
                 border, hot_zones, fn>>

\* _complete_countermeasure, run by the operation's timer
CompleteCountermeasure(o, success) ==
  /\ o \in DOMAIN active_countermeasures
  /\ active_countermeasures[o].active
  /\ active_countermeasures' =
       [active_countermeasures EXCEPT ![o].active = FALSE,
          ![o].status = IF success THEN "success" ELSE "failed"]
  /\ UNCHANGED <<simVars, connVars, jamVars, engineVars, calls, an,
                 border, hot_zones, fn>>

\* abort_countermeasure; the timer is cancelled
AbortCountermeasure(o) ==
  /\ o \in DOMAIN active_countermeasures
  /\ active_countermeasures[o].active
  /\ active_countermeasures' =
       [active_countermeasures EXCEPT ![o].active = FALSE, ![o].status = "aborted"]
  /\ UNCHANGED <<simVars, connVars, jamVars, engineVars, calls, an,
                 border, hot_zones, fn>>

\* simulate_capture_effect(drone.dict()) for a drone of the registry
CaptureEffect(id) ==
  /\ id \in DOMAIN drones
  /\ \E inProgress \in BOOLEAN :
       fn' = [op |-> "simulate_capture_effect", id |-> id,
              res |-> SimulateCaptureEffect(id, active_countermeasures, inProgress)]
  /\ UNCHANGED <<simVars, connVars, jamVars, engineVars, calls, an,
                 border, hot_zones, active_countermeasures>>

NextCapture ==
  \/ \E id \in Ids, m \in CaptureMethods : DeployCountermeasure(id, m)
  \/ \E o \in 1..MaxOps, success \in BOOLEAN : CompleteCountermeasure(o, success)
  \/ \E o \in 1..MaxOps : AbortCountermeasure(o)
  \/ \E id \in Ids : CaptureEffect(id)

SpecCapture == InitCapture /\ [][NextCapture]_vars

\* get_random_point_in_border on its own.  edge_bias, the distances and the
\* random values are hundredths; u is the draw random.random() after the
\* bias exponent, the angle one of the four axis directions.
EdgeBiasDraws == {-50, 0, 40, 99, 100, 150}
MinDistanceDraws == {0, 30}
MaxDistanceDraws == {NoneVal, 10, 95}
UnitDraws == {0, 50, 99}
AngleDraws == {<<1, 0>>, <<0, 1>>, <<-1, 0>>, <<0, -1>>}

RandomPointInBorder(b, edge_bias, min_distance, max_distance, u, angle) ==
  LET maxd0 == IF max_distance = NoneVal THEN 100 ELSE max_distance
      mind == Max(0, Min(100, min_distance))
      maxd == Max(mind, Min(100, maxd0))
      bias == Max(0, Min(100, edge_bias))
      distance == mind + ((maxd - mind) * u) \div 100
  IN IF bias > 0 /\ 100 - bias = 0
     THEN [exc |-> "ZeroDivisionError", point |-> <<>>]
     ELSE [exc |-> "none",
           point |-> [lat |-> b.lat + (distance * (b.height \div 2) * angle[2]) \div 100,
                      lon |-> b.lon + (distance * (b.width \div 2) * angle[1]) \div 100]]

InitPoint ==
  /\ Standalone("get_random_point_in_border")
  /\ drone_missions = Empty
  /\ border = DefaultBorder
  /\ hot_zones \in CreateHotZones(DefaultBorder)
  /\ drones = Empty
  /\ alerts = <<>>
  /\ \E e \in EdgeBiasDraws, mn \in MinDistanceDraws, mx \in MaxDistanceDraws,
        u \in UnitDraws, a \in AngleDraws :
       fn = [op |-> "pending",
             arg |-> [edge_bias |-> e, min_distance |-> mn, max_distance |-> mx,
                      u |-> u, angle |-> a]]

\* one call of get_random_point_in_border
RandomPoint ==
  /\ fn.op = "pending"
  /\ fn' = [op |-> "get_random_point_in_border", arg |-> fn.arg,
            res |-> RandomPointInBorder(border, fn.arg.edge_bias, fn.arg.min_distance,
                                        fn.arg.max_distance, fn.arg.u, fn.arg.angle)]
  /\ UNCHANGED <<simVars, connVars, jamVars, engineVars, calls, an,
                 border, hot_zones, active_countermeasures>>

SpecPoint == InitPoint /\ [][RandomPoint]_vars

\* is_point_in_border on its own: borders of several shapes and rotations,
\* points inside, on the edge and outside
BorderDraws ==
  { [lat |-> 0, lon |-> x, width |-> w, height |-> h, rotation |-> r] :
      x \in {0, 100}, w \in {4, 20}, h \in {8, 20}, r \in Rotations }
OffsetDraws == {-1000, -11, -10, -5, -4, -2, 0, 2, 3, 4, 5, 10, 11, 1000}

InitBorder ==
  /\ Standalone("is_point_in_border")
  /\ drone_missions = Empty
  /\ border \in BorderDraws
  /\ hot_zones \in CreateHotZones(DefaultBorder)
  /\ drones = Empty
  /\ alerts = <<>>
  /\ \E dy \in OffsetDraws, dx \in OffsetDraws :
       fn = [op |-> "pending",
             arg |-> [lat |-> border.lat + dy, lon |-> border.lon + dx]]

\* one call of is_point_in_border
PointInBorder ==
  /\ fn.op = "pending"
  /\ fn' = [op |-> "is_point_in_border", arg |-> fn.arg,
            res |-> IsPointInBorder(fn.arg, border)]
  /\ UNCHANGED <<simVars, connVars, jamVars, engineVars, calls, an,
                 border, hot_zones, active_countermeasures>>

SpecBorder == InitBorder /\ [][PointInBorder]_vars

\* the drone updates on their own: one drone of the registry, with or
\* without a mission, updated MaxUpdates times in any order by the position
\* update and by apply_countermeasure_effects
MaxUpdates == 3
MaxMissionUpdates == 11
UpdateBound == IF pc = "update_mission" THEN MaxMissionUpdates ELSE MaxUpdates

InitUpdate ==
  /\ Standalone("update_position")
  /\ border = DefaultBorder
  /\ hot_zones \in CreateHotZones(DefaultBorder)
  /\ fn = NoCall
  /\ alerts = <<>>
  /\ \E d \in RandomDrones : drones = Put(Empty, 1, d)
  /\ drone_missions \in {Empty} \cup {Put(Empty, 1, m) : m \in NewMissions}

\* run_simulation lines 992-1000 without the analyzer: the position update
\* of the drone and the write-back
UpdateDrone ==
  /\ ticks < UpdateBound
  /\ ticks' = ticks + 1
  /\ \E o \in UpdatePosition(1, drones[1], drone_missions) :
       /\ drone_missions' = o.ms
       /\ drones' = IF o.exc = "none" THEN Put(drones, 1, o.drone) ELSE drones
       /\ fn' = [op |-> "update_drone_position", exc |-> o.exc]
  /\ UNCHANGED <<alerts, num_drones, connVars, jamVars, pc, snap, detached, cur,
                 bc, task, cancel, calls, an, border, hot_zones,
                 active_countermeasures>>

\* apply_countermeasure_effects with a jammer at the drawn power and the
\* drone a takeover target under the drawn command
ApplyCountermeasures ==
  /\ ticks < MaxUpdates
  /\ ticks' = ticks + 1
  /\ \E power \in PowerDraws, cmd \in TakeoverCommands :
       LET jam == Put(Empty, 1, power)
       IN drones' = Put(drones, 1,
            SetAttrs(SimulateTakeoverEffect(
              SimulateJammingEffect(drones[1], jam, TRUE, JamDistance), cmd)))
  /\ UNCHANGED <<drone_missions, alerts, num_drones, connVars, jamVars, pc, snap,
                 detached, cur, bc, task, cancel, calls, an, border, hot_zones, active_countermeasures, fn>>

NextUpdate == UpdateDrone \/ ApplyCountermeasures

\* the mission updates on their own: one drone with a mission of any type
\* and behaviour, updated until a survey grid has been flown
MissionTypes == {"infiltration", "reconnaissance", "patrol"}
Behaviors == {"direct", "circling", "hovering", "evasive", "random", "grid"}

InitMission ==
  /\ Standalone("update_mission")
  /\ border = DefaultBorder
  /\ hot_zones \in CreateHotZones(DefaultBorder)
  /\ fn = NoCall
  /\ alerts = <<>>
  /\ \E d \in RandomDrones : drones = Put(Empty, 1, d)
  /\ \E mt \in MissionTypes, b \in Behaviors :
       drone_missions =
         Put(Empty, 1, [mission_type |-> mt, behavior |-> b, idx |-> 0,
                        built |-> FALSE])

SpecMission == InitMission /\ [][UpdateDrone]_vars

\* the position update of a drone whose mission has outlived its duration
ExpiredUpdate ==
  /\ ticks < UpdateBound
  /\ ticks' = ticks + 1
  /\ 1 \in DOMAIN drone_missions
  /\ \E o \in UpdatePositionOf(1, drones[1], drone_missions,
                              MissionExpired(drones[1], drone_missions[1])) :
       /\ drone_missions' = o.ms
       /\ drones' = IF o.exc = "none" THEN Put(drones, 1, o.drone) ELSE drones
       /\ fn' = [op |-> "update_expired_mission", arg |-> drone_missions[1],
                 exc |-> o.exc]
  /\ UNCHANGED <<alerts, num_drones, connVars, jamVars, pc, snap, detached, cur,
                 bc, task, cancel, calls, an, border, hot_zones,
                 active_countermeasures>>

SpecExpiry == InitMission /\ [][UpdateDrone \/ ExpiredUpdate]_vars

SpecUpdate == InitUpdate /\ [][NextUpdate]_vars

\* -------------------------------------------- the analyzer as a pure function
AnalyzeSignals == {0, 19, 20, 60, 95, 96, 100}
AnalyzeSpeeds == {NoneVal, 0, 300, 301, 400}
AnalyzeAltitudes == {NoneVal, 0, 5, 10, 100, 1000, 1001}

AnalyzeInputs ==
  { [threat |-> t, signal |-> s, speed |-> v, alt |-> a, heading |-> 0,
     confidence |-> SpawnConfidence, zone |-> "inside", locDict |-> FALSE] :
      t \in ThreatLevel, s \in AnalyzeSignals, v \in AnalyzeSpeeds,
      a \in AnalyzeAltitudes }

InitAnalyze ==
  /\ drones = Empty
  /\ drone_missions = Empty
  /\ alerts = <<>>
  /\ num_drones = SIM_DEFAULT_DRONES
  /\ active_connections = <<>>
  /\ ws = [c \in Sockets |-> "new"]
  /\ active_jammers = Empty
  /\ jammer_active = FALSE
  /\ jamming_threads = {}
  /\ pc = "analyzer"
  /\ snap = {}
  /\ detached = Empty
  /\ cur = NoCur
  /\ bc = NoBc
  /\ task = "running"
  /\ cancel = "none"
  /\ ticks = 0
  /\ calls = 0
  /\ \E d \in AnalyzeInputs : an = [AnIdle EXCEPT !.phase = "in", !.in = d]
  /\ active_countermeasures = <<>>
  /\ border = DefaultBorder
  /\ hot_zones \in CreateHotZones(DefaultBorder)
  /\ fn = NoCall

\* one call of analyze_drone_data with no subscriber connected
Analyze ==
  /\ an.phase = "in"
  /\ an' = [an EXCEPT !.phase = "out", !.out = AnalyzeDrone(an.in),
                      !.alert = AnalyzeAlert(an.in)]
  /\ fn' = [op |-> "analyze_drone_data", id |-> 1, arg |-> an.in,
            res |-> AnalyzeAlerts(1, an.in)]
  /\ UNCHANGED <<simVars, connVars, jamVars, engineVars, calls,
                 border, hot_zones, active_countermeasures>>

\* a second call of analyze_drone_data, on the drone the first call returned
Reanalyze ==
  /\ an.phase = "out"
  /\ an' = [phase |-> "again", in |-> an.out, out |-> AnalyzeDrone(an.out),
            alert |-> AnalyzeAlert(an.out)]
  /\ fn' = [op |-> "analyze_drone_data", id |-> 1, arg |-> an.out,
            res |-> AnalyzeAlerts(1, an.out)]
  /\ UNCHANGED <<simVars, connVars, jamVars, engineVars, calls,
                 border, hot_zones, active_countermeasures>>

NextAnalyze == Analyze \/ Reanalyze

SpecAnalyze == InitAnalyze /\ [][NextAnalyze]_vars

\* the server with WebSocket clients and shutdown, no API request
Spec == Init /\ [][Next]_vars

\* the server with a WebSocket client and API requests
SpecApi == Init /\ [][NextApi]_vars

\* ------------------------------------------------------------------ claims
\* C1: every id in the mission side table is the id of a drone in the
\* registry, after any sequence of ticks and add_test_drone / reset requests.
MissionsBelongToRegistry == DOMAIN drone_missions \subseteq DOMAIN drones

\* C2: one call of analyze_drone_data never lowers the threat level: the
\* returned level is at least the input level in none < low < ... < critical.
AnalyzerNeverLowers == an.phase = "out" => an.out.threat >= an.in.threat

\* C2, its case: a drone already at critical that is faster than 30 m/s has
\* been analysed (the speed rule is the one that assigns a fixed level).
AnalyzedFastCritical ==
  /\ an.phase = "out"
  /\ an.in.threat = CRITICAL
  /\ an.in.speed > FastSpeed
  /\ an.out.threat = CRITICAL

\* C3: while no jammer is active, no step of the engine (position update,
\* analysis and write-back, countermeasure step, spawn / retire step) lowers
\* the threat level stored in the registry under an id.
ThreatNeverDecreases ==
  [][ \A id \in (DOMAIN drones) \cap (DOMAIN drones') :
        (~jammer_active /\ ~jammer_active')
          => drones'[id].threat >= drones[id].threat ]_vars

\* C4: without API requests the registry holds num_drones drones after
\* initialization, its size is within [num_drones - 2, num_drones + 3] at the
\* end of every tick, and no step of a tick changes its size by more than one.
RegistrySizeBounds ==
  /\ [](pc = "tick" /\ ticks = 0 => Cardinality(DOMAIN drones) = num_drones)
  /\ [](pc = "sleep" => /\ Cardinality(DOMAIN drones) >= num_drones - 2
                        /\ Cardinality(DOMAIN drones) <= num_drones + 3)
  /\ [][ pc # "start" =>
           Cardinality(DOMAIN drones') - Cardinality(DOMAIN drones) \in {-1, 0, 1} ]_vars

\* C5: once the cancellation has been requested no further tick starts, and
\* when it is delivered at the suspension point (a send of a broadcast or the
\* sleep) the loop is over and the task has ended with CancelledError.
CancellationEndsTask ==
  /\ [](cancel = "delivered" => pc = "done" /\ task = "cancelled")
  /\ [][ cancel # "none" => ticks' = ticks ]_vars

\* C5, its case: the cancellation was delivered inside a broadcast (where the
\* send is wrapped in except clauses) and the task ended cancelled.
CancelledInBroadcast ==
  /\ cancel = "delivered"
  /\ bc.raised = "CancelledError"
  /\ task = "cancelled"

\* the effects of the step-1 update in progress (cur): none has taken place,
\* or all of them have
NoneApplied(c) ==
  ~c.missionChanged /\ ~c.written /\ ~c.posAppended /\ ~c.anAppended

AllApplied(c) == c.written /\ (c.anAlert => c.anAppended)

\* C6: when the engine has been cancelled, the step-1 update of the drone it
\* was working on is applied completely (mission advanced, snapshot written
\* back, analyzer and zone / border alerts appended) or not at all.
CancelledUpdateAllOrNothing ==
  task = "cancelled" /\ cur.id # 0 => NoneApplied(cur) \/ AllApplied(cur)

\* C7: an exception raised while updating or analysing a drone, checking its
\* alerts or broadcasting never ends the engine task; only cancellation does.
EngineSurvivesExceptions == task # "failed"

\* C8: no exception leaves a broadcast call (other than the cancellation of
\* the task), whatever the sends do and whenever clients connect or disconnect.
BroadcastReturnsNormally == bc.raised \in {"none", "CancelledError"}

\* C9: when a broadcast call returns, every subscriber whose send failed in
\* it, with a disconnect or with another error, is out of active_connections.
FailedSubscribersDropped ==
  pc = "bret" => \A c \in bc.failed : c \notin Range(active_connections)

AlertLogAppendOnly ==
  [][ /\ Len(alerts') >= Len(alerts)
      /\ SubSeq(alerts', 1, Len(alerts)) = alerts ]_vars

\* the alert triggers that apply to drone d, and the alert types that the
\* step-1 update in progress (cur) appends for its drone
TriggeredAlerts(d) ==
  (IF d.zone = "restricted" THEN {"restricted_zone"} ELSE {})
  \cup (IF d.zone = "west" THEN {"border_violation"} ELSE {})
  \cup (IF d.threat \in {HIGH, CRITICAL} THEN {"unauthorized_flight"} ELSE {})

ProducedAlerts(c) ==
  LET pa == CheckForAlerts(c.id, [c.upd EXCEPT !.threat = c.lvl])
  IN {pa[i].alert_type : i \in DOMAIN pa}
     \cup (IF c.anAlert THEN {"unauthorized_flight"} ELSE {})

\* C12: the alert triggers are independent: in a cycle a drone at high or
\* critical produces an unauthorized_flight alert also when it is in the
\* restricted zone or west of the border, together with that zone's alert.
AlertTriggersIndependent ==
  cur.written =>
    TriggeredAlerts([cur.upd EXCEPT !.threat = cur.lvl]) \subseteq ProducedAlerts(cur)

\* C13: the zone / border check on a drone returns a restricted_zone alert
\* for every drone inside the restricted zone (a hot zone marked restricted,
\* or the circle of min(width, height) / 6 around the border center), returns
\* no alert for a drone outside it, not west of the border and below high,
\* and changes neither the drone, nor the registry, nor the alert log.
CheckForAlertsZoneFirst ==
  [][ fn'.op = "check_for_alerts" /\ fn.op = "pending" =>
        LET p == fn.arg.loc
            inR == IsInRestrictedZone(p, border, hot_zones)
        IN /\ inR => /\ Len(fn'.res) = 1
                     /\ fn'.res[1].alert_type = "restricted_zone"
                     /\ fn'.res[1].drone_id = fn.id
           /\ (~inR /\ ~WestOfBorder(p, border) /\ fn.arg.threat < HIGH)
                => fn'.res = <<>>
           /\ fn'.arg = fn.arg
           /\ drones' = drones
           /\ alerts' = alerts ]_vars

\* C13, its case: a critical drone 0.001 degrees off the border center was
\* checked and a restricted_zone alert came back, the registry still holding
\* the drone.
CheckedRestrictedCritical ==
  /\ fn.op = "check_for_alerts"
  /\ fn.arg.loc = [lat |-> 1, lon |-> 1]
  /\ fn.arg.threat = CRITICAL
  /\ border = DefaultBorder
  /\ Len(fn.res) = 1 /\ fn.res[1].alert_type = "restricted_zone"
  /\ 1 \in DOMAIN drones

\* the level the claimed rule gives: the greatest of the prior level and the
\* levels of the signal, speed and altitude rules that apply
ClaimedLevel(d) ==
  LET ls == {d.threat}
        \cup (IF d.signal < WeakSignal \/ d.signal > StrongSignal THEN {MEDIUM} ELSE {})
        \cup (IF d.speed # NoneVal /\ d.speed > FastSpeed THEN {HIGH} ELSE {})
        \cup (IF d.alt # NoneVal /\ (d.alt < LowAltitude \/ d.alt > HighAltitude)
              THEN {MEDIUM} ELSE {})
  IN CHOOSE m \in ls : \A l \in ls : l <= m

\* C14: the level returned by the analyzer is the maximum of the prior level,
\* medium for a signal below 20 or above 95, high for a speed above 30 m/s,
\* and medium for a present altitude below 10 m or above 1000 m, an altitude
\* of 0 included.
AnalyzerLevelIsMaximum ==
  an.phase = "out" => an.out.threat = ClaimedLevel(an.in)

\* C15: the analyzer returns an unauthorized_flight alert exactly when the
\* resulting level differs from the prior level and is high or critical; the
\* alert carries the drone's id, its location and the new level; in every
\* other case no alert is returned.
AnalyzerAlertExactlyOnEscalation ==
  fn.op = "analyze_drone_data" =>
    IF an.out.threat # fn.arg.threat /\ an.out.threat \in {HIGH, CRITICAL}
    THEN /\ Len(fn.res) = 1
         /\ fn.res[1].alert_type = "unauthorized_flight"
         /\ fn.res[1].drone_id = fn.id
         /\ fn.res[1].location = [zone |-> fn.arg.zone, alt |-> fn.arg.alt]
         /\ fn.res[1].threat_level = an.out.threat
    ELSE fn.res = <<>>

\* C15, its cases: a low drone at 40 m/s was analysed and the alert with the
\* level high came back.
AnalyzedLowFast ==
  /\ fn.op = "analyze_drone_data"
  /\ fn.arg.threat = LOW
  /\ fn.arg.speed = 400
  /\ Len(fn.res) = 1
  /\ fn.res[1].threat_level = HIGH

\* C16: analysis is idempotent: analysing the drone that an analysis returned
\* gives a drone with the same threat level and no alert.
AnalysisIdempotent ==
  an.phase = "again" =>
    /\ an.out.threat = an.in.threat
    /\ ~an.alert
    /\ fn.res = <<>>

\* C16, its case: a drone that the first analysis raised to high (and alerted
\* on) has been analysed a second time.
ReanalysedEscalated ==
  /\ an.phase = "again"
  /\ an.in.threat = HIGH
  /\ an.in.speed > FastSpeed
  /\ an.in.signal < WeakSignal
  /\ an.out.threat = HIGH

\* C17: every drone held in the registry, in every reachable state, has a
\* non-null id, 0 <= signal_strength <= 100, 0 <= heading < 360, speed >= 0
\* and 0 <= confidence <= 1 (confidence in hundredths here).
DroneFieldsInRange ==
  \A id \in DOMAIN drones :
    /\ id # NoneVal
    /\ drones[id].signal >= 0 /\ drones[id].signal <= 100
    /\ drones[id].heading >= 0 /\ drones[id].heading < 360
    /\ drones[id].speed >= 0
    /\ drones[id].confidence >= 0 /\ drones[id].confidence <= 100

\* C17, its case: a drone whose signal the jammer took to the floor of 0 and
\* whose heading wrapped around 360 in a later position update.
JammedToZeroAndTurned ==
  /\ ticks >= 2
  /\ 1 \in DOMAIN drones
  /\ drones[1].signal = 0
  /\ drones[1].heading < 180
  /\ ~drones[1].locDict

\* C18: the threat level of a spawned drone is exactly one step above the
\* level drawn for its type when its location is in the restricted zone (a
\* critical draw staying critical), and equals the drawn level otherwise.
SpawnLevelOneStepInRestricted ==
  fn.op = "create_random_drone" =>
    fn.res.threat =
      IF IsInRestrictedZone(fn.arg.loc, border, hot_zones)
      THEN (IF fn.arg.threat = CRITICAL THEN CRITICAL ELSE fn.arg.threat + 1)
      ELSE fn.arg.threat

\* C18, its case: a military drone drawn at critical was created 0.001
\* degrees off the border center and is critical.
SpawnedCriticalInRestricted ==
  /\ fn.op = "create_random_drone"
  /\ fn.arg.type = "military"
  /\ fn.arg.threat = CRITICAL
  /\ fn.arg.loc = [lat |-> 1, lon |-> 1]
  /\ border = DefaultBorder
  /\ fn.res.threat = CRITICAL

\* C19: in every reachable state, also after update_config changed the
\* border's center, width or height, exactly one hot zone is marked
\* restricted and its center is the current border center.
RestrictedZoneAtBorderCenter ==
  LET rs == {i \in DOMAIN hot_zones : hot_zones[i].restricted}
  IN /\ Cardinality(rs) = 1
     /\ \A i \in rs : hot_zones[i].lat = border.lat /\ hot_zones[i].lon = border.lon

\* C20: drone ids are unique: a spawn (a pass of the initialization loop, the
\* spawn step of a tick, add_test_drone) never replaces an existing entry of
\* the registry; each spawn adds exactly one entry and leaves every other
\* drone and every other drone's mission as they were.
SpawnAddsOneEntry ==
  [][ /\ EngineStart =>
           Cardinality(DOMAIN drones') = Cardinality(DOMAIN drones) + num_drones
      /\ (SpawnStep \/ AddTestDrone) =>
           /\ Cardinality(DOMAIN drones') = Cardinality(DOMAIN drones) + 1
           /\ \A id \in DOMAIN drones :
                /\ id \in DOMAIN drones' /\ drones'[id] = drones[id]
                /\ (id \in DOMAIN drone_missions) = (id \in DOMAIN drone_missions')
                /\ id \in DOMAIN drone_missions
                     => drone_missions'[id] = drone_missions[id] ]_vars

\* C21: the jamming effect never lowers a drone's threat level: whenever the
\* effect is above the high-effect threshold (80) the returned snapshot has
\* control_compromised set and a level at least the level before the effect,
\* so a critical drone stays critical.
JammingNeverLowersThreat ==
  fn.op = "simulate_jamming_effect" =>
    /\ fn.res.drone.threat >= fn.arg.drone.threat
    /\ (fn.arg.active /\ JammingEffect(fn.arg.jam, fn.arg.dist) > JamControlLevel)
         => fn.res.control_compromised

\* C22: a successful capture becomes visible on the drone: once a capture
\* operation against a drone has completed with status success, applying the
\* capture effect to that drone's snapshot yields captured = true and the
\* capture_method of a successful operation against it.
SuccessfulCaptureVisible ==
  [][ \A id \in Ids :
        CaptureEffect(id) =>
          LET won == {o \in DOMAIN active_countermeasures :
                        /\ active_countermeasures[o].drone_id = id
                        /\ active_countermeasures[o].status = "success"}
          IN won # {} =>
               /\ fn'.res.captured
               /\ \E o \in won :
                    fn'.res.capture_method = active_countermeasures[o].method ]_vars

\* C23: get_random_point_in_border never fails, whatever edge_bias is given:
\* the bias is clamped into [0, 1), so a call with edge_bias = 1 or more
\* returns a point and does not divide by zero.
RandomPointNeverFails ==
  fn.op = "get_random_point_in_border" =>
    /\ fn.res.exc = "none"
    /\ fn.res.point # <<>>

\* the points of the axis-aligned rectangle of a border, in fifths of a unit
HalfRange(n) == (-((RotationScale * n) \div 2)) .. ((RotationScale * n) \div 2)

\* a point is in the turned rectangle when turning some point q of the
\* axis-aligned rectangle forward by the rotation gives the point's offset
InTurnedRectangle(p, b) ==
  \E qx \in HalfRange(b.width), qy \in HalfRange(b.height) :
    /\ qx * b.rotation[1] - qy * b.rotation[2]
         = RotationScale * RotationScale * (p.lon - b.lon)
    /\ qx * b.rotation[2] + qy * b.rotation[1]
         = RotationScale * RotationScale * (p.lat - b.lat)

\* C24: is_point_in_border is true exactly when the point's offset from the
\* center, inverse-rotated by border.rotation, lies within plus or minus
\* width/2 and height/2, the edge included; so it is true for the center of
\* every border and false when the latitude offset exceeds height/2 in an
\* unrotated border.
InBorderIsTurnedRectangle ==
  fn.op = "is_point_in_border" =>
    /\ fn.res = InTurnedRectangle(fn.arg, border)
    /\ (fn.arg.lat = border.lat /\ fn.arg.lon = border.lon) => fn.res
    /\ (border.rotation = NoRotation /\ 2 * (fn.arg.lat - border.lat) > border.height)
         => ~fn.res

\* C24, its case: a point on the edge of a border turned by the 3-4-5 angle
\* was tested and found inside, where the unturned rectangle would not hold it.
EdgePointOfTurnedBorder ==
  /\ fn.op = "is_point_in_border"
  /\ border.rotation = <<4, 3>>
  /\ border.width = 4 /\ border.height = 20
  /\ fn.arg.lat - border.lat = -2 /\ fn.arg.lon - border.lon = 4
  /\ fn.res

\* C25: in grid behaviour, once the last waypoint of the lattice has been
\* reached (the index is len(waypoints)), the next update either resets the
\* index to 0 and flies on toward waypoint 0, or switches the behaviour to
\* hovering; no update reads the waypoint list outside 0..len(waypoints)-1
\* and none raises an error.
GridWrapsOrHovers ==
  [][ UpdateDrone =>
        /\ fn'.exc = "none"
        /\ (/\ 1 \in DOMAIN drone_missions
            /\ drone_missions[1].behavior = "grid"
            /\ drone_missions[1].idx >= GridPoints
            /\ 1 \in DOMAIN drone_missions'
            /\ drone_missions'[1].built)
             => \/ drone_missions'[1].behavior = "hovering"
                \/ /\ drone_missions'[1].behavior = "grid"
                   /\ drone_missions'[1].idx \in {0, 1} ]_vars

ExpiredMissionRemoved ==
  [][ ExpiredUpdate =>
        /\ fn'.exc = "none"
        /\ \/ 1 \notin DOMAIN drone_missions'
           \/ /\ drone_missions'[1] \in NewMissions
              /\ drone_missions'[1].idx = 0
              /\ ~drone_missions'[1].built ]_vars

\* C27, its case: a hovering mission expired and the drone is left without
\* a mission.
HoveringMissionExpired ==
  /\ fn.op = "update_expired_mission"
  /\ fn.arg.behavior = "hovering"
  /\ 1 \notin DOMAIN drone_missions

\* ------------------------------------------- the spawn/retire event on its own
\* run_simulation lines 1022-1055 with the 5% event fired, on registries of
\* every size up to MaxRegistry = num_drones + 3; spawnDraw is
\* random.random() < 0.7
MaxRegistry == 8
MaxEvents == 2
RegistryIds == 1..MaxRegistry

InitRegistry ==
  /\ Standalone("spawn_retire")
  /\ drone_missions = Empty
  /\ border = DefaultBorder
  /\ hot_zones \in CreateHotZones(DefaultBorder)
  /\ fn = NoCall
  /\ alerts = <<>>
  /\ \E k \in 0..MaxRegistry, d \in RandomDrones : drones = [i \in 1..k |-> d]

SpawnRetireEvent ==
  /\ ticks < MaxEvents
  /\ ticks' = ticks + 1
  /\ \E spawnDraw \in BOOLEAN :
       IF spawnDraw /\ Cardinality(DOMAIN drones) < num_drones + 3
       THEN \E id \in RegistryIds, d \in RandomDrones :
              /\ drones' = Put(drones, id, d)
              /\ drone_missions' \in {drone_missions}
                   \cup {Put(drone_missions, id, nm) : nm \in NewMissions}
              /\ alerts' = Append(alerts, Alert(id, "new_detection", d.threat))
              /\ fn' = [op |-> "spawn_retire", arg |-> spawnDraw, res |-> "spawn"]
       ELSE IF DOMAIN drones # {} /\ Cardinality(DOMAIN drones) > num_drones - 2
       THEN \E id \in DOMAIN drones :
              /\ drones' = Del(drones, id)
              /\ drone_missions' = Del(drone_missions, id)
              /\ alerts' = alerts
              /\ fn' = [op |-> "spawn_retire", arg |-> spawnDraw, res |-> "retire"]
       ELSE /\ UNCHANGED <<drones, drone_missions, alerts>>
            /\ fn' = [op |-> "spawn_retire", arg |-> spawnDraw, res |-> "none"]
  /\ UNCHANGED <<num_drones, connVars, jamVars, pc, snap, detached, cur, bc, task,
                 cancel, calls, an, border, hot_zones, active_countermeasures>>

SpecRegistry == InitRegistry /\ [][SpawnRetireEvent]_vars

\* C28: when the spawn/retire event fires and the draw selects the 70% spawn
\* branch, no drone is removed from the registry, whatever its size.
SpawnDrawNeverRetires ==
  [][ (SpawnRetireEvent /\ fn'.arg) => (DOMAIN drones \subseteq DOMAIN drones') ]_vars

\* ------------------------------------- the countermeasure alerts on their own
\* apply_countermeasure_effects once per tick on MaxJammed drones, the jammer
\* being switched on and off between ticks; fn.res records whether the drones
\* were flagged is_jammed by the last application
MaxJammed == 2

InitJammed ==
  /\ num_drones = SIM_DEFAULT_DRONES
  /\ active_connections = <<>>
  /\ ws = [c \in Sockets |-> "new"]
  /\ \E power \in JamPowerDraws : active_jammers = Put(Empty, 1, power)
  /\ jammer_active = TRUE
  /\ jamming_threads = {}
  /\ pc = "apply_effects"
  /\ snap = {}
  /\ detached = Empty
  /\ cur = NoCur
  /\ bc = NoBc
  /\ task = "running"
  /\ cancel = "none"
  /\ ticks = 0
  /\ calls = 0
  /\ an = AnIdle
  /\ active_countermeasures = <<>>
  /\ drone_missions = Empty
  /\ border = DefaultBorder
  /\ hot_zones \in CreateHotZones(DefaultBorder)
  /\ fn = NoCall
  /\ alerts = <<>>
  /\ \E d \in RandomDrones : drones = [i \in 1..MaxJammed |-> d]

ApplyEffects ==
  /\ ticks < MaxUpdates
  /\ ticks' = ticks + 1
  /\ LET ds == [id \in DOMAIN drones |->
                  SetAttrs(SimulateJammingEffect(drones[id], active_jammers,
                                                 jammer_active, JamDistance))]
     IN /\ drones' = ds
        /\ alerts' = alerts \o CmAlerts(DOMAIN drones, ds)
  /\ fn' = [op |-> "apply_countermeasure_effects",
            res |-> IsJammed(active_jammers, jammer_active, JamDistance)]
  /\ UNCHANGED <<drone_missions, num_drones, connVars, jamVars, pc, snap, detached,
                 cur, bc, task, cancel, calls, an, border, hot_zones,
                 active_countermeasures>>

\* apply_countermeasure_effects when the takeover entry of drone k is removed
\* by its expiry timer (takeover.py line 262, on the timer's thread) between
\* the membership test and the read of line 942: KeyError. The drones before
\* k have been handled; the except clause is outside the for loop
ApplyEffectsRaising ==
  /\ ticks < MaxUpdates
  /\ ticks' = ticks + 1
  /\ \E k \in DOMAIN drones :
       LET handled == {id \in DOMAIN drones : id < k}
           ds == [id \in DOMAIN drones |->
                    IF id \in handled
                    THEN SetAttrs(SimulateJammingEffect(drones[id], active_jammers,
                                                        jammer_active, JamDistance))
                    ELSE drones[id]]
       IN /\ drones' = ds
          /\ alerts' = alerts \o CmAlerts(handled, ds)
          /\ fn' = [op |-> "apply_countermeasure_effects_raised", arg |-> k,
                    exc |-> "KeyError"]
  /\ UNCHANGED <<drone_missions, num_drones, connVars, jamVars, pc, snap, detached,
                 cur, bc, task, cancel, calls, an, border, hot_zones,
                 active_countermeasures>>

\* DroneJammer.deactivate_jamming of the only session, or activate_jamming
SwitchJammer ==
  /\ calls < MaxEvents
  /\ calls' = calls + 1
  /\ IF jammer_active
     THEN active_jammers' = Empty /\ jammer_active' = FALSE
     ELSE /\ \E power \in JamPowerDraws : active_jammers' = Put(Empty, 1, power)
          /\ jammer_active' = TRUE
  /\ UNCHANGED <<jamming_threads, drones, drone_missions, alerts, num_drones, connVars, pc, snap,
                 detached, cur, bc, task, cancel, ticks, an, border, hot_zones,
                 active_countermeasures, fn>>

\* ---------------------------------------------------- a broadcast on its own
\* ConnectionManager.broadcast of one message to up to MaxSubscribers
\* connections, every send returning, failing or finding the peer gone
MaxSubscribers == 3

InitBroadcast ==
  /\ num_drones = SIM_DEFAULT_DRONES
  /\ \E n \in 0..MaxSubscribers :
       \E f \in [1..n -> 1..MaxSubscribers] :
         /\ \A i, j \in 1..n : f[i] = f[j] => i = j
         /\ active_connections = f
  /\ ws = [c \in Sockets |-> "new"]
  /\ active_jammers = Empty
  /\ jammer_active = FALSE
  /\ jamming_threads = {}
  /\ pc = "bcast"
  /\ snap = {}
  /\ detached = Empty
  /\ cur = NoCur
  /\ bc = StartBroadcast("drones")
  /\ task = "running"
  /\ cancel = "none"
  /\ ticks = 0
  /\ calls = 0
  /\ an = AnIdle
  /\ active_countermeasures = <<>>
  /\ drone_missions = Empty
  /\ border = DefaultBorder
  /\ hot_zones \in CreateHotZones(DefaultBorder)
  /\ fn = NoCall
  /\ alerts = <<>>
  /\ drones = Empty

SpecBroadcast ==
  InitBroadcast /\ [][BcastNext \/ SendComplete \/ BcastReturn]_vars

SpecCmAlerts ==
  InitJammed /\ [][ApplyEffects \/ ApplyEffectsRaising \/ SwitchJammer]_vars

\* C29: countermeasure alerts are edge-triggered: a drone that was jammed at
\* the previous tick and is still jammed at this tick gets no further
\* signal_interference alert.
JammedAlertOnlyOnEdge ==
  [][ (/\ ApplyEffects
       /\ fn.op = "apply_countermeasure_effects"
       /\ fn.res
       /\ fn'.res) => alerts' = alerts ]_vars

\* C30 as stated: within a tick, when one drone produces both an analyzer
\* alert and a zone/border alert, the analyzer's alert is in the alert log
\* before the zone/border alert is appended.
AnalyzerAlertLoggedFirst ==
  [][ (WriteBack /\ cur.anAlert /\ cur'.posAppended) =>
        /\ alerts # <<>>
        /\ alerts[Len(alerts)] = Alert(cur.id, "unauthorized_flight", cur.lvl) ]_vars

\* C30 amended: the zone/border alert of the drone is appended first, at the
\* write-back; the analyzer's alert is appended after it, as the last entry.
PositionAlertLoggedFirst ==
  [][ (PostPosition /\ cur.anAlert /\ cur.posAppended) =>
        /\ alerts # <<>>
        /\ <<alerts[Len(alerts)]>> = CheckForAlerts(cur.id, drones[cur.id])
        /\ alerts' = Append(alerts, Alert(cur.id, "unauthorized_flight", cur.lvl)) ]_vars

\* C30, its case: in the first tick the drone got a restricted-zone alert
\* and then the analyzer's alert.
ZoneAlertThenAnalyzerAlert ==
  /\ ticks = 1
  /\ pc = "step1"
  /\ Len(alerts) = 2
  /\ alerts[1].drone_id = 1 /\ alerts[1].alert_type = "restricted_zone"
  /\ alerts[2].drone_id = 1 /\ alerts[2].alert_type = "unauthorized_flight"

\* C31: every alert the engine appends to the alert log is also passed to
\* the broadcast in the same tick: the step that appends it starts the
\* broadcast of it, or (the analyzer's alert, appended at pc = "post") the
\* analyzer has broadcast it before returning it.
AppendedAlertsBroadcast ==
  [][ (Len(alerts') > Len(alerts) /\ ~Suspended) =>
        (pc' = "bcast" \/ pc = "post") ]_vars

\* C32: every drone that enters the registry has a new_detection alert for
\* its id appended to the alert log by the step that adds it.
NewDroneHasDetectionAlert ==
  [][ \A id \in (DOMAIN drones') \ (DOMAIN drones) :
        /\ Len(alerts') = Len(alerts) + 1
        /\ alerts'[Len(alerts')].drone_id = id
        /\ alerts'[Len(alerts')].alert_type = "new_detection" ]_vars

\* C33: reset is effective under concurrency: a drone removed from the
\* registry while the tick was suspended in its per-drone loop is not put
\* back by the tick, so the write-back only ever replaces an entry.
ResetDronesStayRemoved ==
  [][ WriteBack => (DOMAIN drones' = DOMAIN drones) ]_vars

\* C34: errors are isolated per drone in the countermeasure step: when the
\* application to one drone raises, the effects are still applied to every
\* other drone in the same tick.
CountermeasureErrorIsolated ==
  [][ ApplyEffectsRaising =>
        \A id \in (DOMAIN drones) \ {fn'.arg} :
          drones'[id] = SetAttrs(SimulateJammingEffect(drones[id], active_jammers,
                                                       jammer_active, JamDistance)) ]_vars

\* C35: when a subscriber fails and is pruned during a broadcast, no healthy
\* subscriber is skipped: when the broadcast call returns, every connection
\* still in the list whose send did not fail has been sent the message.
NoHealthySubscriberSkipped ==
  pc = "bret" => (Range(active_connections) \ bc.failed) \subseteq bc.sent

\* ------------------------------------------- the jamming sessions and timers
\* DroneJammer.activate_jamming and deactivate_jamming on the sessions
\* 1..MaxJammed; a duration of NoneVal is a continuous session. A timer is
\* cancelled only by an activation that has a duration (line 147) and by
\* deactivate_jamming (line 192)
DurationDraws == {NoneVal, 30}

InitSessions ==
  /\ Standalone("sessions")
  /\ drones = Empty
  /\ drone_missions = Empty
  /\ border = DefaultBorder
  /\ hot_zones \in CreateHotZones(DefaultBorder)
  /\ fn = NoCall
  /\ alerts = <<>>

\* the body of deactivate_jamming(id)
Deactivated(id) ==
  IF id \in DOMAIN active_jammers
  THEN /\ active_jammers' = Del(active_jammers, id)
       /\ jamming_threads' = jamming_threads \ {id}
       /\ jammer_active' = (jammer_active /\ DOMAIN active_jammers # {id})
  ELSE UNCHANGED <<active_jammers, jamming_threads, jammer_active>>

ActivateSession(id, power, duration) ==
  /\ calls < MaxUpdates
  /\ calls' = calls + 1
  /\ active_jammers' = Put(active_jammers, id, power)
  /\ jammer_active' = TRUE
  /\ jamming_threads' = IF duration # NoneVal THEN jamming_threads \cup {id}
                        ELSE jamming_threads
  /\ fn' = [op |-> "activate_jamming", arg |-> [id |-> id, duration |-> duration]]
  /\ UNCHANGED <<simVars, connVars, engineVars, an, border, hot_zones,
                 active_countermeasures>>

DeactivateSession(id) ==
  /\ calls < MaxUpdates
  /\ calls' = calls + 1
  /\ Deactivated(id)
  /\ fn' = [op |-> "deactivate_jamming", arg |-> [id |-> id, by |-> "request"]]
  /\ UNCHANGED <<simVars, connVars, engineVars, an, border, hot_zones,
                 active_countermeasures>>

\* the threading.Timer of session id runs its callback
TimerFires(id) ==
  /\ id \in jamming_threads
  /\ IF id \in DOMAIN active_jammers
     THEN Deactivated(id)
     ELSE /\ jamming_threads' = jamming_threads \ {id}
          /\ UNCHANGED <<active_jammers, jammer_active>>
  /\ fn' = [op |-> "deactivate_jamming", arg |-> [id |-> id, by |-> "timer"]]
  /\ UNCHANGED <<simVars, connVars, engineVars, calls, an, border, hot_zones,
                 active_countermeasures>>

SpecSessions ==
  InitSessions
  /\ [][\E id \in 1..MaxJammed :
          \/ \E power \in PowerDraws, duration \in DurationDraws :
               ActivateSession(id, power, duration)
          \/ DeactivateSession(id)
          \/ TimerFires(id)]_vars

\* C36: a superseded expiry timer never ends a newer session: a session
\* whose latest activation had no duration is still active after a timer
\* has fired.
SupersededTimerHarmless ==
  [][ \A id \in 1..MaxJammed :
        (/\ TimerFires(id)
         /\ fn.op = "activate_jamming"
         /\ fn.arg.id = id
         /\ fn.arg.duration = NoneVal) => id \in DOMAIN active_jammers' ]_vars

\* C37: when no jammer is active and no takeover targets a drone, the
\* countermeasure step leaves the drone's registry record unchanged in every
\* field, the kind of value held in its location field included, and appends
\* no alert.
IdleCountermeasuresChangeNothing ==
  [][ (ApplyEffects /\ ~jammer_active) =>
        (drones' = drones /\ alerts' = alerts) ]_vars

\* --------------------------------------------- the missionless update alone
\* The else branch of _update_drone_position (lines 840-896) on locations:
\* coordinates in thousandths of a degree, headings in multiples of 15
\* degrees. SinK is math.sin in thousandths.
SinK(h) ==
  LET SinQuarter(a) ==
        CASE a = 0 -> 0 [] a = 15 -> 259 [] a = 30 -> 500 [] a = 45 -> 707
          [] a = 60 -> 866 [] a = 75 -> 966 [] a = 90 -> 1000
      a == (h + 720) % 360
  IN IF a <= 90 THEN SinQuarter(a)
     ELSE IF a <= 180 THEN SinQuarter(180 - a)
     ELSE IF a <= 270 THEN -SinQuarter(a - 180)
     ELSE -SinQuarter(360 - a)

\* 111.32 km per degree of latitude, in metres per thousandth of a degree
\* times 1000 (the scale of SinK)
MetresPerDegree == 111320

\* the quotient rounded toward zero
Quotient(n, d) == IF n >= 0 THEN n \div d ELSE -((-n) \div d)

\* calculate_new_position: heading_rad = radians(90 - heading); the latitude
\* moves by distance * sin(heading_rad), the longitude by
\* distance * cos(heading_rad) / cos(latitude)
CalculateNewPosition(start, heading, speed, time_delta) ==
  LET distance == speed * time_delta
      sn == SinK(90 - heading)
      cs == SinK(90 - (90 - heading))
  IN [lat |-> start.lat + Quotient(distance * sn, MetresPerDegree),
      lon |-> start.lon
              + Quotient(Quotient(distance * cs, LonScale) * 1000, MetresPerDegree)]

\* the draws of random.uniform(-15, 15) and random.uniform(-1, 1), 0 when the
\* 30% draw fails
HeadingNoise == {-15, 0, 15}
SpeedNoise == {-1, 0, 1}

\* lines 856-862: turn back when the projected position leaves the border
NewHeadings(a, b) ==
  IF ~IsPointInBorder(CalculateNewPosition(a.loc, a.heading, a.speed, a.dt), b)
  THEN {(a.heading + 180) % 360}
  ELSE {(a.heading + hc + 360) % 360 : hc \in HeadingNoise}

\* an update that moves the drone at its new speed
MissionlessAtNewSpeed(a, b) ==
  { [loc |-> CalculateNewPosition(a.loc, nh, Max(0, a.speed + sc), a.dt),
     heading |-> nh, speed |-> Max(0, a.speed + sc)]
    : nh \in NewHeadings(a, b), sc \in SpeedNoise }

\* lines 864-889: the position is calculated again with the new heading and
\* drone.speed; the new speed is max(0, speed + change)
Missionless(a, b) ==
  { [loc |-> CalculateNewPosition(a.loc, nh, a.speed, a.dt),
     heading |-> nh, speed |-> Max(0, a.speed + sc)]
    : nh \in NewHeadings(a, b), sc \in SpeedNoise }

InitMissionless ==
  /\ Standalone("update_missionless")
  /\ drones = Empty
  /\ drone_missions = Empty
  /\ border = DefaultBorder
  /\ hot_zones \in CreateHotZones(DefaultBorder)
  /\ alerts = <<>>
  /\ \E y \in {-50, -45, 0, 48, 50}, x \in {-50, -45, 0, 48, 50},
        h \in {0, 45, 90, 180, 270, 345}, v \in {0, 112, 350}, dt \in {1, 10} :
       fn = [op |-> "pending",
             arg |-> [loc |-> [lat |-> y, lon |-> x], heading |-> h,
                      speed |-> v, dt |-> dt]]

MissionlessUpdate ==
  /\ fn.op = "pending"
  /\ \E r \in Missionless(fn.arg, border) :
       fn' = [op |-> "update_drone_position", arg |-> fn.arg, res |-> r]
  /\ UNCHANGED <<simVars, connVars, jamVars, engineVars, calls, an, border,
                 hot_zones, active_countermeasures>>

SpecMissionless == InitMissionless /\ [][MissionlessUpdate]_vars

\* the distance between two headings around the circle
HeadingDifference(h1, h2) ==
  Min((h1 - h2 + 360) % 360, (h2 - h1 + 360) % 360)

GridSize == 20

\* three rows, the odd one from the last column to the first, without the
\* change of direction
BuildGridRowMajor(center) ==
  LET GridRow(row) ==
        [k \in 1..3 |-> [lat |-> center.lat + (row - 3 \div 2) * GridSize,
                         lon |-> center.lon + ((k - 1) - 3 \div 2) * GridSize]]
  IN GridRow(0) \o GridRow(1) \o GridRow(2)

\* lines 708-725: rows = cols = 3, col_range reversed on odd rows
BuildGrid(center) ==
  LET ColRange(row) == IF row % 2 = 0 THEN <<0, 1, 2>> ELSE <<2, 1, 0>>
      GridRow(row) ==
        [k \in 1..3 |-> [lat |-> center.lat + (row - 3 \div 2) * GridSize,
                         lon |-> center.lon + (ColRange(row)[k] - 3 \div 2) * GridSize]]
  IN GridRow(0) \o GridRow(1) \o GridRow(2)

\* one grid update of mission m = [target, waypoints, idx, behavior, exc]
GridStep(m) ==
  LET m0 == IF m.waypoints = <<>>
            THEN [m EXCEPT !.waypoints = BuildGrid(m.target), !.idx = 0]
            ELSE m
  IN IF m0.idx >= Len(m0.waypoints)
     THEN {[m0 EXCEPT !.idx = 0, !.exc = "IndexError"],
           [m0 EXCEPT !.behavior = "hovering"]}
     ELSE {m0, [m0 EXCEPT !.idx = m0.idx + 1]}

InitGrid ==
  /\ Standalone("update_grid")
  /\ drones = Empty
  /\ drone_missions = Empty
  /\ border = DefaultBorder
  /\ hot_zones \in CreateHotZones(DefaultBorder)
  /\ alerts = <<>>
  /\ \E y \in {-30, 0, 10, 30}, x \in {-30, 0, 10, 30} :
       fn = [op |-> "pending",
             res |-> [target |-> [lat |-> y, lon |-> x], waypoints |-> <<>>,
                      idx |-> 0, behavior |-> "grid", exc |-> "none"]]

GridUpdate ==
  /\ fn.res.behavior = "grid"
  /\ fn.res.exc = "none"
  /\ \E m \in GridStep(fn.res) : fn' = [op |-> "update_grid", res |-> m]
  /\ UNCHANGED <<simVars, connVars, jamVars, engineVars, calls, an, border,
                 hot_zones, active_countermeasures>>

SpecGrid == InitGrid /\ [][GridUpdate]_vars

\* the lattice as the claim describes it: spacing 0.02, row 0 west to east,
\* row 1 east to west, row 2 west to east
Lattice(c) ==
  << [lat |-> c.lat - 20, lon |-> c.lon - 20], [lat |-> c.lat - 20, lon |-> c.lon],
     [lat |-> c.lat - 20, lon |-> c.lon + 20],
     [lat |-> c.lat, lon |-> c.lon + 20], [lat |-> c.lat, lon |-> c.lon],
     [lat |-> c.lat, lon |-> c.lon - 20],
     [lat |-> c.lat + 20, lon |-> c.lon - 20], [lat |-> c.lat + 20, lon |-> c.lon],
     [lat |-> c.lat + 20, lon |-> c.lon + 20] >>

\* C39: on the first grid update the waypoint list is built as exactly 9
\* points, a 3x3 lattice around the mission target with spacing 0.02 in
\* boustrophedon order, and later updates neither rebuild nor modify it.
GridLatticeBuiltOnce ==
  [][ GridUpdate =>
        /\ fn'.res.waypoints = Lattice(fn'.res.target)
        /\ Len(fn'.res.waypoints) = GridPoints
        /\ fn.op = "update_grid" => fn'.res.waypoints = fn.res.waypoints ]_vars

\* C39, its case: the lattice around the target (0.010, -0.030) has been
\* flown to its last waypoint.
LatticeFlown ==
  /\ fn.op = "update_grid" /\ pc = "update_grid"
  /\ fn.res.target = [lat |-> 10, lon |-> -30]
  /\ fn.res.idx = GridPoints
  /\ fn.res.waypoints[4] = [lat |-> 10, lon |-> -10]
  /\ fn.res.waypoints[6] = [lat |-> 10, lon |-> -50]

\* ------------------------------------------------ acknowledging on its own
\* POST /alerts/{alert_id}/acknowledge on a log of up to MaxLog alerts, each
\* with its id (a uuid4, so the ids of a log differ) and is_acknowledged
MaxLog == 3
AlertIds == 1..(MaxLog + 1)

\* an acknowledgement that marks every alert up to the one found
AcknowledgeUpTo(log, alert_id) ==
  LET hits == {i \in DOMAIN log : log[i].id = alert_id}
  IN IF hits = {} THEN [log |-> log, status |-> "not_found"]
     ELSE LET i == CHOOSE x \in hits : \A y \in hits : x <= y
          IN [log |-> [k \in DOMAIN log |->
                         IF k <= i THEN [log[k] EXCEPT !.is_acknowledged = TRUE]
                         ELSE log[k]],
              status |-> "success"]

\* acknowledge_alert: the first alert with the id is marked and returned;
\* HTTP 404 when the loop ends without a match
AcknowledgeAlert(log, alert_id) ==
  LET hits == {i \in DOMAIN log : log[i].id = alert_id}
  IN IF hits = {} THEN [log |-> log, status |-> "not_found"]
     ELSE LET i == CHOOSE x \in hits : \A y \in hits : x <= y
          IN [log |-> [log EXCEPT ![i].is_acknowledged = TRUE],
              status |-> "success"]

InitAck ==
  /\ Standalone("acknowledge")
  /\ drones = Empty
  /\ drone_missions = Empty
  /\ border = DefaultBorder
  /\ hot_zones \in CreateHotZones(DefaultBorder)
  /\ fn = NoCall
  /\ \E n \in 0..MaxLog, ty \in {"new_detection", "restricted_zone"} :
       alerts = [i \in 1..n |->
                   [id |-> i, drone_id |-> 1, alert_type |-> ty,
                    threat_level |-> MEDIUM, is_acknowledged |-> FALSE]]

Acknowledge(alert_id) ==
  /\ calls < MaxUpdates
  /\ calls' = calls + 1
  /\ LET r == AcknowledgeAlert(alerts, alert_id)
     IN /\ alerts' = r.log
        /\ fn' = [op |-> "acknowledge_alert", arg |-> alert_id, res |-> r.status]
  /\ UNCHANGED <<drones, drone_missions, num_drones, connVars, jamVars, engineVars,
                 an, border, hot_zones, active_countermeasures>>

SpecAck == InitAck /\ [][\E alert_id \in AlertIds : Acknowledge(alert_id)]_vars

\* C40: acknowledging an id present in the alert log sets is_acknowledged of
\* exactly that alert and changes no other alert, nor the order or length of
\* the log; for an id not in the log it reports not-found and changes nothing.
AcknowledgeTouchesOneAlert ==
  [][ \A a \in AlertIds :
        Acknowledge(a) =>
          IF \E i \in DOMAIN alerts : alerts[i].id = a
          THEN /\ fn'.res = "success"
               /\ Len(alerts') = Len(alerts)
               /\ \A i \in DOMAIN alerts :
                    alerts'[i] = IF alerts[i].id = a
                                 THEN [alerts[i] EXCEPT !.is_acknowledged = TRUE]
                                 ELSE alerts[i]
          ELSE fn'.res = "not_found" /\ alerts' = alerts ]_vars

\* C40, its case: of three alerts the second has been acknowledged, the
\* first and the third have not.
SecondAlertAcknowledged ==
  /\ fn.op = "acknowledge_alert" /\ fn.res = "success" /\ fn.arg = 2
  /\ Len(alerts) = 3
  /\ ~alerts[1].is_acknowledged
  /\ alerts[2].is_acknowledged
  /\ ~alerts[3].is_acknowledged



====
